---- MODULE Spec2Model ----
\* Verification model of the spotifygpt behaviour core:
\*   session_state.py        SessionStateMachine (apply / snapshot)
\*   novelty_budget.py       compute_novelty_budget
\*   novelty_sequencer.py    apply_novelty_budget
\*   behavior_orchestrator.py orchestrate_candidates
\*
\* Floats are fixed-point integers in units of 1/Scale (0.05 is 500), so that
\* round(x, 2) is a real operation (rounding to a multiple of Scale/100).
\* An optional value (Python None | v) is a sequence of length 0 or 1.
EXTENDS Integers, Sequences, FiniteSets

\* ---------------------------------------------------------------- bounds
MaxWindow == 5      \* largest early_skip_window_size the model constructs
MaxEvents == 6      \* longest event stream fed to one machine
NumIds == 4         \* number of distinct track ids the sequencer inputs use
MaxCandidates == 4  \* longest candidate list handed to the sequencer
MaxEveryN == 3      \* largest budget.anchor_every_n
MaxAnchorIds == 3   \* longest anchor_track_ids list handed to the behavior hook
MaxTracks == 3      \* longest candidate list handed to build_recommendation
MaxItems == 2       \* most saved-track items the API returns
MaxPlaylists == 2   \* most playlists the API returns
MaxRuns == 2        \* runs of run_standard_sync against one database

\* ------------------------------------------------------- program constants
Scale == 100 * 100   \* fixed-point units per 1.0: the 2 decimals of round(x, 2), times 100
DefaultWindowSize == 5
CriticoSkipRun == 4
CriticoEarlySkips == 2
FragilSkipRun == 2
CalienteCompleteRun == 3
MaxExploration == 8000
DiurnalAdjustment == 500

None == <<>>
Some(v) == <<v>>

SessionStates == {"CALIENTE", "NEUTRO", "FRAGIL", "CRITICO"}
TimeBlocks == {"MORNING", "AFTERNOON", "EVENING", "NIGHT", "LATE_NIGHT"}

\* SessionEvent(skipped, early_skip): every combination the dataclass admits
SessionEvent == [skipped : BOOLEAN, early_skip : BOOLEAN]
complete == [skipped |-> FALSE, early_skip |-> FALSE]
skip == [skipped |-> TRUE, early_skip |-> FALSE]
early_skip_event == [skipped |-> TRUE, early_skip |-> TRUE]

Range(s) == {s[i] : i \in 1..Len(s)}
Min(S) == CHOOSE x \in S : \A y \in S : x <= y

\* ------------------------------------------------- session_state.py

\* sum(self._early_skip_recent_window): number of True entries
RECURSIVE SumWindow(_)
SumWindow(w) ==
    IF w = <<>> THEN 0
    ELSE (IF Head(w) THEN 1 ELSE 0) + SumWindow(Tail(w))

\* the if / elif / else of apply() that updates the two run lengths
RunLengthsForgetReset(skip_len, complete_len, event) ==
    IF event.early_skip
    THEN [skip_run_len |-> skip_len + 1, complete_run_len |-> 0]
    ELSE IF event.skipped
    THEN [skip_run_len |-> skip_len + 1, complete_run_len |-> complete_len]
    ELSE [skip_run_len |-> 0, complete_run_len |-> complete_len + 1]

RunLengths(skip_len, complete_len, event) ==
    IF event.early_skip
    THEN [skip_run_len |-> skip_len + 1, complete_run_len |-> 0]
    ELSE IF event.skipped
    THEN [skip_run_len |-> skip_len + 1, complete_run_len |-> 0]
    ELSE [skip_run_len |-> 0, complete_run_len |-> complete_len + 1]

\* while len(window) > size: window.popleft()
RECURSIVE Evict(_, _)
Evict(w, size) ==
    IF Len(w) > size THEN Evict(Tail(w), size) ELSE w

\* append(event.early_skip) followed by the eviction loop
PushWindowEvictNewest(w, flag, size) ==
    LET pushed == Append(w, flag)
    IN  IF Len(pushed) > size THEN SubSeq(pushed, 1, size) ELSE pushed

PushWindow(w, flag, size) == Evict(Append(w, flag), size)

\* _resolve_state: first match wins
resolve_state_run_only(skip_len, complete_len, early_skip_recent) ==
    IF skip_len >= CriticoSkipRun THEN "CRITICO"
    ELSE IF skip_len >= FragilSkipRun THEN "FRAGIL"
    ELSE IF complete_len >= CalienteCompleteRun THEN "CALIENTE"
    ELSE "NEUTRO"

resolve_state_fragil_first(skip_len, complete_len, early_skip_recent) ==
    IF skip_len >= FragilSkipRun THEN "FRAGIL"
    ELSE IF skip_len >= CriticoSkipRun \/ early_skip_recent >= CriticoEarlySkips
    THEN "CRITICO"
    ELSE IF complete_len >= CalienteCompleteRun THEN "CALIENTE"
    ELSE "NEUTRO"

resolve_state_single_early_skip(skip_len, complete_len, early_skip_recent) ==
    IF skip_len >= CriticoSkipRun \/ early_skip_recent >= 1
    THEN "CRITICO"
    ELSE IF skip_len >= FragilSkipRun THEN "FRAGIL"
    ELSE IF complete_len >= CalienteCompleteRun THEN "CALIENTE"
    ELSE "NEUTRO"

resolve_state(skip_len, complete_len, early_skip_recent) ==
    IF skip_len >= CriticoSkipRun \/ early_skip_recent >= CriticoEarlySkips
    THEN "CRITICO"
    ELSE IF skip_len >= FragilSkipRun THEN "FRAGIL"
    ELSE IF complete_len >= CalienteCompleteRun THEN "CALIENTE"
    ELSE "NEUTRO"

\* _resolve_interventions: multiplier table and the two flags
ExplorationMultiplier(state) ==
    CASE state = "CALIENTE" -> 10000
      [] state = "NEUTRO" -> 8000
      [] state = "FRAGIL" -> 4000
      [] state = "CRITICO" -> 2000

resolve_interventions_reset_when_fragile(state) ==
    [exploration_multiplier |-> ExplorationMultiplier(state),
     should_inject_anchor |-> state \in {"FRAGIL", "CRITICO"},
     should_suggest_reset |-> state \in {"FRAGIL", "CRITICO"}]

resolve_interventions(state) ==
    [exploration_multiplier |-> ExplorationMultiplier(state),
     should_inject_anchor |-> state \in {"FRAGIL", "CRITICO"},
     should_suggest_reset |-> state = "CRITICO"]

\* snapshot(): the SessionSnapshot built from the current fields
snapshot(skip_len, complete_len, w) ==
    LET early_skip_recent == SumWindow(w)
        state == resolve_state(skip_len, complete_len, early_skip_recent)
    IN  [state |-> state,
         skip_run_len |-> skip_len,
         complete_run_len |-> complete_len,
         early_skip_recent |-> early_skip_recent,
         interventions |-> resolve_interventions(state)]

\* ------------------------------------------------- novelty_budget.py

\* round(x, 2) on a fixed-point value: nearest multiple of Scale/100,
\* ties to the even multiple as Python's round does
Round2(x) ==
    LET unit == Scale \div 100
        q == x \div unit
        r == x % unit
    IN  IF 2 * r > unit THEN (q + 1) * unit
        ELSE IF 2 * r < unit THEN q * unit
        ELSE IF q % 2 = 0 THEN q * unit ELSE (q + 1) * unit

Clamp(x, lo, hi) == IF x < lo THEN lo ELSE IF x > hi THEN hi ELSE x

BaseExploration(state) ==
    CASE state = "CALIENTE" -> 6000
      [] state = "NEUTRO" -> 4000
      [] state = "FRAGIL" -> 2000
      [] state = "CRITICO" -> 1000

AnchorEveryNSwapped(state) ==
    CASE state = "FRAGIL" -> Some(1)
      [] state = "CRITICO" -> Some(2)
      [] OTHER -> None

AnchorEveryN(state) ==
    CASE state = "FRAGIL" -> Some(2)
      [] state = "CRITICO" -> Some(1)
      [] OTHER -> None

compute_novelty_budget_evening_penalty(time_block, session_state) ==
    LET base == BaseExploration(session_state)
        adjusted == IF time_block \in {"MORNING", "AFTERNOON"}
                    THEN base + DiurnalAdjustment
                    ELSE IF time_block \in {"EVENING", "NIGHT", "LATE_NIGHT"}
                    THEN base - DiurnalAdjustment
                    ELSE base
        exploration == Round2(Clamp(adjusted, 0, MaxExploration))
    IN  [exploration |-> exploration,
         anchor_ratio |-> Round2(Scale - exploration),
         anchor_every_n |-> AnchorEveryN(session_state)]

compute_novelty_budget(time_block, session_state) ==
    LET base == BaseExploration(session_state)
        adjusted == IF time_block \in {"MORNING", "AFTERNOON"}
                    THEN base + DiurnalAdjustment
                    ELSE IF time_block \in {"NIGHT", "LATE_NIGHT"}
                    THEN base - DiurnalAdjustment
                    ELSE base
        exploration == Round2(Clamp(adjusted, 0, MaxExploration))
    IN  [exploration |-> exploration,
         anchor_ratio |-> Round2(Scale - exploration),
         anchor_every_n |-> AnchorEveryN(session_state)]

\* ------------------------------------------------- novelty_sequencer.py

TrackNames == <<"n1", "a1", "n2", "a2", "n3", "a3", "n4">>
TrackIds == {TrackNames[i] : i \in 1..NumIds}

Max(a, b) == IF a >= b THEN a ELSE b

\* first loop: keep the first occurrence of every id, in input order
RECURSIVE DedupKeepLast(_, _, _)
DedupKeepLast(cands, i, acc) ==
    IF i > Len(cands) THEN acc
    ELSE IF \E j \in (i + 1)..Len(cands) : cands[j] = cands[i]
    THEN DedupKeepLast(cands, i + 1, acc)
    ELSE DedupKeepLast(cands, i + 1,
                       [seen |-> acc.seen \cup {cands[i]},
                        unique_candidates |-> Append(acc.unique_candidates, cands[i])])

RECURSIVE Dedup(_, _, _)
Dedup(cands, i, acc) ==
    IF i > Len(cands) THEN acc
    ELSE IF cands[i] \notin acc.seen
    THEN Dedup(cands, i + 1,
               [seen |-> acc.seen \cup {cands[i]},
                unique_candidates |-> Append(acc.unique_candidates, cands[i])])
    ELSE Dedup(cands, i + 1, acc)

UniqueCandidates(cands) ==
    Dedup(cands, 1, [seen |-> {}, unique_candidates |-> <<>>]).unique_candidates

\* the early return "if not anchors or budget.anchor_every_n is None"
Passthrough(anchor_set, bud) ==
    anchor_set = {} \/ bud.anchor_every_n = None

\* inner loop: first anchor after position idx that is not emitted yet
PulledAnchorFarthest(unique, idx, anchor_set, emitted_set) ==
    LET later == {j \in (idx + 1)..Len(unique) :
                    unique[j] \in anchor_set /\ unique[j] \notin emitted_set}
    IN  IF later = {} THEN None
        ELSE Some(unique[CHOOSE j \in later : \A k \in later : k <= j])

PulledAnchor(unique, idx, anchor_set, emitted_set) ==
    LET later == {j \in (idx + 1)..Len(unique) :
                    unique[j] \in anchor_set /\ unique[j] \notin emitted_set}
    IN  IF later = {} THEN None ELSE Some(unique[Min(later)])

\* does the iteration at idx look for an anchor to pull forward
WantsAnchorLate(unique, idx, anchor_set, st, every_n) ==
    unique[idx] \notin anchor_set /\ st.since_last_anchor >= every_n

WantsAnchorEarly(unique, idx, anchor_set, st, every_n) ==
    unique[idx] \notin anchor_set /\ st.since_last_anchor >= every_n - 2

WantsAnchor(unique, idx, anchor_set, st, every_n) ==
    unique[idx] \notin anchor_set /\ st.since_last_anchor >= every_n - 1

\* emit one id: output.append, emitted.add, counter update
EmitCountsAnchors(st, track_id, anchor_set) ==
    [output |-> Append(st.output, track_id),
     emitted |-> st.emitted \cup {track_id},
     since_last_anchor |-> st.since_last_anchor + 1]

Emit(st, track_id, anchor_set) ==
    [output |-> Append(st.output, track_id),
     emitted |-> st.emitted \cup {track_id},
     since_last_anchor |-> IF track_id \in anchor_set THEN 0
                           ELSE st.since_last_anchor + 1]

\* one pass of the body of "for index, track_id in enumerate(unique_candidates)"
\* on the loop state st = [output, emitted, since_last_anchor]
IterationNoEmittedCheck(st, unique, idx, anchor_set, every_n) ==
    LET pulled == IF WantsAnchor(unique, idx, anchor_set, st, every_n)
                  THEN PulledAnchor(unique, idx, anchor_set, st.emitted)
                  ELSE None
        st1 == IF pulled # None THEN Emit(st, pulled[1], anchor_set) ELSE st
    IN  Emit(st1, unique[idx], anchor_set)

Iteration(st, unique, idx, anchor_set, every_n) ==
    IF unique[idx] \in st.emitted THEN st
    ELSE LET pulled == IF WantsAnchor(unique, idx, anchor_set, st, every_n)
                       THEN PulledAnchor(unique, idx, anchor_set, st.emitted)
                       ELSE None
             st1 == IF pulled # None THEN Emit(st, pulled[1], anchor_set) ELSE st
         IN  Emit(st1, unique[idx], anchor_set)

LoopStart == [output |-> <<>>, emitted |-> {}, since_last_anchor |-> 0]

RECURSIVE RunLoop(_, _, _, _, _)
RunLoop(st, unique, idx, anchor_set, every_n) ==
    IF idx > Len(unique) THEN st.output
    ELSE RunLoop(Iteration(st, unique, idx, anchor_set, every_n),
                 unique, idx + 1, anchor_set, every_n)

\* the whole function, as one call
apply_novelty_budget(cands, anchor_set, bud) ==
    LET unique == UniqueCandidates(cands)
    IN  IF unique = <<>> THEN <<>>
        ELSE IF Passthrough(anchor_set, bud) THEN unique
        ELSE RunLoop(LoopStart, unique, 1, anchor_set,
                     Max(1, bud.anchor_every_n[1]))

\* ------------------------------------------------- behavior_orchestrator.py

orchestrate_candidates(time_block, session_state, cands, anchor_set) ==
    LET bud == compute_novelty_budget(time_block, session_state)
    IN  [budget |-> bud,
         sequenced |-> apply_novelty_budget(cands, anchor_set, bud)]

\* ------------------------------------------------- behavior_hook.py

ANCHOR_BOOST == Scale

\* product of two fixed-point values
Times(x, y) == (x * y) \div Scale

\* "not anchor_track_ids": None or an empty list
NoAnchorIds(anchor_track_ids) ==
    anchor_track_ids = None \/ anchor_track_ids[1] = <<>>

\* how often the boost is added to track_id: the loop runs over set(anchor_track_ids)
BoostsPerListing(track_id, anchor_track_ids) ==
    Cardinality({i \in 1..Len(anchor_track_ids[1]) : anchor_track_ids[1][i] = track_id})

Boosts(track_id, anchor_track_ids) ==
    IF track_id \in Range(anchor_track_ids[1]) THEN 1 ELSE 0

apply_session_interventions(base_scores, interventions, anchor_track_ids) ==
    LET adjusted == [track_id \in DOMAIN base_scores |->
                        Times(base_scores[track_id], interventions.exploration_multiplier)]
        inject == interventions.should_inject_anchor /\ ~NoAnchorIds(anchor_track_ids)
    IN  [scores |-> IF inject
                    THEN [track_id \in DOMAIN adjusted |->
                            adjusted[track_id]
                              + Boosts(track_id, anchor_track_ids) * ANCHOR_BOOST]
                    ELSE adjusted,
         needs_anchor |-> interventions.should_inject_anchor
                            /\ NoAnchorIds(anchor_track_ids),
         should_suggest_reset |-> interventions.should_suggest_reset]

\* ------------------------------------------------- context_engine.py

TempoFloor == 40
TempoCeiling == 220

\* round(x, digits) and round(x): half to even, to a multiple of unit
RoundTo(x, unit) ==
    LET q == x \div unit
        r == x % unit
    IN  IF 2 * r > unit THEN (q + 1) * unit
        ELSE IF 2 * r < unit THEN q * unit
        ELSE IF q % 2 = 0 THEN q * unit ELSE (q + 1) * unit
Round3(x) == RoundTo(x, Scale \div 1000)
\* int(round(x)) of a tempo held in units of 1/Scale BPM
RoundInt(x) == RoundTo(x, Scale) \div Scale

\* _STATE_CONFIG; tempo_width in BPM, the other numbers in units of 1/Scale
StateConfig(state) ==
    CASE state = "CALIENTE" ->
            [exploration_multiplier |-> 10000, anchor_ratio |-> 1500,
             anchor_every_n |-> None, sequencing_strategy |-> "flow_explore",
             energy_width |-> 1800, tempo_width |-> 24]
      [] state = "NEUTRO" ->
            [exploration_multiplier |-> 8000, anchor_ratio |-> 2500,
             anchor_every_n |-> Some(5), sequencing_strategy |-> "balanced",
             energy_width |-> 1400, tempo_width |-> 20]
      [] state = "FRAGIL" ->
            [exploration_multiplier |-> 4000, anchor_ratio |-> 4500,
             anchor_every_n |-> Some(3),
             sequencing_strategy |-> "stabilize_with_anchors",
             energy_width |-> 1000, tempo_width |-> 16]
      [] state = "CRITICO" ->
            [exploration_multiplier |-> 2000, anchor_ratio |-> 6500,
             anchor_every_n |-> Some(2), sequencing_strategy |-> "recovery_mode",
             energy_width |-> 800, tempo_width |-> 12]

\* _TEMPO_PRIOR_BY_BLOCK, BPM
TempoPriorByBlock(block) ==
    CASE block = "MORNING" -> 112
      [] block = "AFTERNOON" -> 124
      [] block = "EVENING" -> 122
      [] block = "NIGHT" -> 108
      [] block = "LATE_NIGHT" -> 92

\* diurnal._FEATURE_PRIORS[block]["energy"]
EnergyPrior(block) ==
    CASE block = "MORNING" -> 6200
      [] block = "AFTERNOON" -> 6800
      [] block = "EVENING" -> 6400
      [] block = "NIGHT" -> 5400
      [] block = "LATE_NIGHT" -> 3800

\* get_feature_prior: ValueError for a block outside _BLOCKS
get_feature_prior(block) ==
    IF block \notin TimeBlocks THEN [raised |-> "ValueError"]
    ELSE [raised |-> "", energy |-> EnergyPrior(block)]

InUnitInterval(x) == 0 <= x /\ x <= Scale

\* _validate_context: the exception raised, "" when the context passes
validate_context_override_unbounded(context) ==
    IF context.time_block \notin TimeBlocks THEN "ValueError"
    ELSE IF context.session_state \notin SessionStates THEN "ValueError"
    ELSE IF ~InUnitInterval(context.fatigue_score) THEN "ValueError"
    ELSE IF context.energy_override # None /\ context.energy_override[1] < 0
    THEN "ValueError"
    ELSE ""

validate_context(context) ==
    IF context.time_block \notin TimeBlocks THEN "ValueError"
    ELSE IF context.session_state \notin SessionStates THEN "ValueError"
    ELSE IF ~InUnitInterval(context.fatigue_score) THEN "ValueError"
    ELSE IF context.energy_override # None
            /\ ~InUnitInterval(context.energy_override[1])
    THEN "ValueError"
    ELSE ""

\* lines 105-112: the energy center before the widths are applied
EnergyCenterFatigueAfterOverride(context) ==
    LET blended == Times(6000, context.dna_energy)
                     + Times(4000, get_feature_prior(context.time_block).energy)
        chosen == IF context.energy_override # None
                  THEN context.energy_override[1] ELSE blended
    IN  Clamp(chosen - Times(context.fatigue_score, 2500), 0, Scale)

EnergyCenter(context) ==
    LET blended == Times(6000, context.dna_energy)
                     + Times(4000, get_feature_prior(context.time_block).energy)
        fatigued == blended - Times(context.fatigue_score, 2500)
    IN  Clamp(IF context.energy_override # None
              THEN context.energy_override[1] ELSE fatigued, 0, Scale)

\* lines 117-123: (tempo_low, tempo_high), BPM
TempoRange(context, energy_center) ==
    LET tempo_center == (6 * context.dna_tempo) \div 10
                          + 4000 * TempoPriorByBlock(context.time_block)
                          - context.fatigue_score * 20
                          + (energy_center - Scale \div 2) * 20
        tempo_width == StateConfig(context.session_state).tempo_width * Scale
    IN  <<Max(TempoFloor, RoundInt(tempo_center - tempo_width)),
          Min({TempoCeiling, RoundInt(tempo_center + tempo_width)})>>

\* the plan of a context that passed validation
RecommendationPlan(context) ==
    LET state_cfg == StateConfig(context.session_state)
        energy_center == EnergyCenter(context)
    IN  [target_energy_range |->
            <<Round3(Clamp(energy_center - state_cfg.energy_width, 0, Scale)),
              Round3(Clamp(energy_center + state_cfg.energy_width, 0, Scale))>>,
         target_tempo_range |-> TempoRange(context, energy_center),
         exploration_multiplier |->
            Round3(Clamp(Times(state_cfg.exploration_multiplier,
                               Scale - context.fatigue_score \div 2),
                         1000, 12000)),
         anchor_ratio |->
            Round3(Clamp(state_cfg.anchor_ratio + context.fatigue_score \div 10,
                         500, 8000)),
         anchor_every_n |-> state_cfg.anchor_every_n,
         sequencing_strategy |-> state_cfg.sequencing_strategy,
         explanation |->
            [time_block |-> context.time_block,
             session_state |-> context.session_state,
             mode |-> IF context.mode = None THEN "unspecified"
                      ELSE context.mode[1],
             energy_source |-> IF context.energy_override # None
                               THEN "override" ELSE "dna+diurnal",
             \* the two numbers the text is formatted from (:.3f and :.1f)
             fatigue_adjustment |->
                <<Round3(Times(context.fatigue_score, 2500)),
                  RoundTo(context.fatigue_score * 20, Scale \div 10)>>]]

compute_recommendation_plan(context) ==
    IF validate_context(context) # ""
    THEN [raised |-> validate_context(context)]
    ELSE IF get_feature_prior(context.time_block).raised # ""
    THEN [raised |-> get_feature_prior(context.time_block).raised]
    ELSE [raised |-> "", plan |-> RecommendationPlan(context)]

\* ------------------------------------------------- recommendation_pipeline.py

\* a track is a dict; energy, tempo and is_anchor may be missing (None here)
\* float(track.get("energy", 0.0)), in units of 1/Scale
Energy(track) == IF track.energy = None THEN 0 ELSE track.energy[1]
\* float(track.get("tempo", 0.0)), BPM
Tempo(track) == IF track.tempo = None THEN 0 ELSE track.tempo[1]
\* bool(track.get("is_anchor", False))
IsAnchor(track) == track.is_anchor # None /\ track.is_anchor[1]

\* the ids of the modelled tracks in Python's string order
IdOrder == <<"anchor", "anchor2", "bare", "high", "low", "mid",
             "out_energy", "out_tempo">>
IdRank(id) == CHOOSE i \in 1..Len(IdOrder) : IdOrder[i] = id

within_range_open_above(value, value_range) ==
    value_range[1] <= value /\ value < value_range[2]

within_range(value, value_range) ==
    value_range[1] <= value /\ value <= value_range[2]

Abs(x) == IF x < 0 THEN 0 - x ELSE x

\* _target_distance, both distances doubled to stay in integers
target_distance(track, plan) ==
    <<Abs(2 * Energy(track)
            - (plan.target_energy_range[1] + plan.target_energy_range[2])),
      Abs(2 * Tempo(track)
            - (plan.target_tempo_range[1] + plan.target_tempo_range[2])),
      IdRank(track.id)>>

\* the sort key _order_tracks uses under the plan's strategy
SortKey(track, plan) ==
    IF plan.sequencing_strategy = "flow_explore"
    THEN <<Tempo(track), Energy(track), IdRank(track.id)>>
    ELSE IF plan.sequencing_strategy \in {"stabilize_with_anchors", "recovery_mode"}
    THEN <<Energy(track), Tempo(track), IdRank(track.id)>>
    ELSE target_distance(track, plan)

\* tuple comparison of two keys
KeyLess(a, b) ==
    \/ a[1] < b[1]
    \/ (a[1] = b[1] /\ a[2] < b[2])
    \/ (a[1] = b[1] /\ a[2] = b[2] /\ a[3] < b[3])

\* sorted(): stable, so a track goes behind the tracks with an equal key
RECURSIVE InsertByKey(_, _, _)
InsertByKey(sorted, track, plan) ==
    IF sorted = <<>> THEN <<track>>
    ELSE IF KeyLess(SortKey(track, plan), SortKey(Head(sorted), plan))
    THEN <<track>> \o sorted
    ELSE <<Head(sorted)>> \o InsertByKey(Tail(sorted), track, plan)

RECURSIVE SortedByKey(_, _, _)
SortedByKey(tracks, plan, acc) ==
    IF tracks = <<>> THEN acc
    ELSE SortedByKey(Tail(tracks), plan, InsertByKey(acc, Head(tracks), plan))

order_tracks(tracks, plan) ==
    IF plan.sequencing_strategy = "balanced" THEN tracks
    ELSE SortedByKey(tracks, plan, <<>>)

select_exploration_tracks_floor(cands, plan) ==
    IF cands = <<>> THEN <<>>
    ELSE LET keep == Max(0, Min({Len(cands),
                                 (Len(cands) * plan.exploration_multiplier) \div Scale}))
         IN  SubSeq(cands, 1, keep)

select_exploration_tracks(cands, plan) ==
    IF cands = <<>> THEN <<>>
    ELSE LET keep == Max(0, Min({Len(cands),
                                 RoundInt(Len(cands) * plan.exploration_multiplier)}))
         IN  SubSeq(cands, 1, keep)

\* the loop of _inject_by_every_n from exploration track i on
RECURSIVE EveryNLoop(_, _, _, _, _, _)
EveryNLoop(exploration, anchor_tracks, every_n, i, anchor_index, count_since_anchor) ==
    IF i > Len(exploration) THEN <<>>
    ELSE IF count_since_anchor + 1 >= every_n /\ anchor_index < Len(anchor_tracks)
    THEN <<exploration[i], anchor_tracks[anchor_index + 1]>>
            \o EveryNLoop(exploration, anchor_tracks, every_n, i + 1,
                          anchor_index + 1, 0)
    ELSE <<exploration[i]>>
            \o EveryNLoop(exploration, anchor_tracks, every_n, i + 1,
                          anchor_index, count_since_anchor + 1)

inject_by_every_n_leftover_always(exploration, anchor_tracks, every_n) ==
    IF every_n <= 0 THEN exploration
    ELSE EveryNLoop(exploration, anchor_tracks, every_n, 1, 0, 0)
            \o (IF anchor_tracks # <<>> THEN <<anchor_tracks[1]>> ELSE <<>>)

inject_by_every_n(exploration, anchor_tracks, every_n) ==
    IF every_n <= 0 THEN exploration
    ELSE EveryNLoop(exploration, anchor_tracks, every_n, 1, 0, 0)
            \o (IF exploration = <<>> /\ anchor_tracks # <<>>
                THEN <<anchor_tracks[1]>> ELSE <<>>)

\* the for loop of _inject_by_ratio from exploration track idx on, then the
\* while loop that appends the anchors not yet used
RECURSIVE RatioLoop(_, _, _, _, _)
RatioLoop(exploration, used_anchors, interval, idx, anchor_index) ==
    IF idx > Len(exploration)
    THEN SubSeq(used_anchors, anchor_index + 1, Len(used_anchors))
    ELSE IF idx % interval = 0 /\ anchor_index < Len(used_anchors)
    THEN <<exploration[idx], used_anchors[anchor_index + 1]>>
            \o RatioLoop(exploration, used_anchors, interval, idx + 1,
                         anchor_index + 1)
    ELSE <<exploration[idx]>>
            \o RatioLoop(exploration, used_anchors, interval, idx + 1,
                         anchor_index)

inject_by_ratio_no_leftover(exploration, anchor_tracks, anchor_ratio) ==
    IF exploration = <<>> THEN SubSeq(anchor_tracks, 1, Min({1, Len(anchor_tracks)}))
    ELSE LET target_anchor_count ==
                 Max(0, Min({Len(anchor_tracks),
                             RoundInt(Len(exploration) * anchor_ratio)}))
             interval == Max(1, Len(exploration) \div Max(1, target_anchor_count))
         IN  IF target_anchor_count = 0 THEN exploration
             ELSE RatioLoop(exploration,
                            SubSeq(anchor_tracks, 1,
                                   Min({target_anchor_count,
                                        Len(exploration) \div interval})),
                            interval, 1, 0)

inject_by_ratio(exploration, anchor_tracks, anchor_ratio) ==
    IF exploration = <<>> THEN SubSeq(anchor_tracks, 1, Min({1, Len(anchor_tracks)}))
    ELSE LET target_anchor_count ==
                 Max(0, Min({Len(anchor_tracks),
                             RoundInt(Len(exploration) * anchor_ratio)}))
         IN  IF target_anchor_count = 0 THEN exploration
             ELSE RatioLoop(exploration,
                            SubSeq(anchor_tracks, 1, target_anchor_count),
                            Max(1, Len(exploration) \div target_anchor_count),
                            1, 0)

InPlanRanges(track, plan) ==
    /\ within_range(Energy(track), plan.target_energy_range)
    /\ within_range(Tempo(track), plan.target_tempo_range)

build_recommendation(cands, plan) ==
    LET filtered == SelectSeq(cands, LAMBDA track : InPlanRanges(track, plan))
        anchor_tracks ==
            order_tracks(SelectSeq(filtered, LAMBDA track : IsAnchor(track)), plan)
        exploration_pool == SelectSeq(filtered, LAMBDA track : ~IsAnchor(track))
        exploration ==
            order_tracks(select_exploration_tracks(exploration_pool, plan), plan)
    IN  IF plan.anchor_every_n # None
        THEN inject_by_every_n(exploration, anchor_tracks, plan.anchor_every_n[1])
        ELSE inject_by_ratio(exploration, anchor_tracks, plan.anchor_ratio)

\* ------------------------------------------------- diurnal.py

Interval(block, start_minute, end_minute) ==
    [block |-> block, start_minute |-> start_minute, end_minute |-> end_minute]

WEEKDAY_SCHEDULE_OVERLAPPING ==
    <<Interval("NIGHT", 0, 119),
      Interval("LATE_NIGHT", 119, 359),
      Interval("MORNING", 360, 719),
      Interval("AFTERNOON", 720, 1019),
      Interval("EVENING", 1020, 1259),
      Interval("NIGHT", 1260, 1439)>>

WEEKDAY_SCHEDULE ==
    <<Interval("NIGHT", 0, 119),
      Interval("LATE_NIGHT", 120, 359),
      Interval("MORNING", 360, 719),
      Interval("AFTERNOON", 720, 1019),
      Interval("EVENING", 1020, 1259),
      Interval("NIGHT", 1260, 1439)>>

WEEKEND_SCHEDULE ==
    <<Interval("NIGHT", 0, 179),
      Interval("LATE_NIGHT", 180, 419),
      Interval("MORNING", 420, 779),
      Interval("AFTERNOON", 780, 1079),
      Interval("EVENING", 1080, 1319),
      Interval("NIGHT", 1320, 1439)>>

\* moment.weekday() is 0 for Monday .. 6 for Sunday
ScheduleForSundayOnly(weekday) ==
    IF weekday >= 6 THEN WEEKEND_SCHEDULE ELSE WEEKDAY_SCHEDULE

ScheduleFor(weekday) ==
    IF weekday >= 5 THEN WEEKEND_SCHEDULE ELSE WEEKDAY_SCHEDULE

\* the intervals of a schedule that contain the minute
Containing(schedule, minute_of_day) ==
    {i \in 1..Len(schedule) :
        /\ schedule[i].start_minute <= minute_of_day
        /\ minute_of_day <= schedule[i].end_minute}

\* get_time_block: the first interval that contains the minute, else RuntimeError
get_time_block(weekday, hour, minute) ==
    LET schedule == ScheduleFor(weekday)
        minute_of_day == hour * 60 + minute
        matches == Containing(schedule, minute_of_day)
    IN  IF matches = {} THEN [raised |-> "RuntimeError"]
        ELSE [raised |-> "", block |-> schedule[Min(matches)].block]

\* ------------------------------------------------- sync_v2.py

HttpOk == 200

TOP_TIME_RANGES == <<"short_term", "medium_term", "long_term">>
TopItemTypes == <<"track", "artist">>

\* _request_json: any HTTP error status ends in RuntimeError (429 is retried
\* first and is not among the statuses modelled)
RequestFails(status) == status # HttpOk

\* the loop of _ingest_saved_tracks over items[i..]; timestamps are ISO strings
\* compared as strings, here integers in the same order
RECURSIVE IngestSavedItemsCountAll(_, _, _, _, _)
IngestSavedItemsCountAll(rows, inserted, items, since, i) ==
    IF i > Len(items) THEN [rows |-> rows, inserted |-> inserted]
    ELSE LET item == items[i]
             row == [track_id |-> item.track.id[1], added_at |-> item.added_at[1],
                     name |-> item.track.name[1]]
         IN  IF \/ item.added_at = None
                \/ (since # None /\ item.added_at[1] < since[1])
                \/ item.track.id = None
                \/ item.track.name = None
             THEN IngestSavedItemsCountAll(rows, inserted, items, since, i + 1)
             ELSE IngestSavedItemsCountAll(rows \cup {row}, inserted + 1, items,
                                           since, i + 1)

RECURSIVE IngestSavedItems(_, _, _, _, _)
IngestSavedItems(rows, inserted, items, since, i) ==
    IF i > Len(items) THEN [rows |-> rows, inserted |-> inserted]
    ELSE LET item == items[i]
             row == [track_id |-> item.track.id[1], added_at |-> item.added_at[1],
                     name |-> item.track.name[1]]
         IN  IF \/ item.added_at = None
                \/ (since # None /\ item.added_at[1] < since[1])
                \/ item.track.id = None
                \/ item.track.name = None
             THEN IngestSavedItems(rows, inserted, items, since, i + 1)
             ELSE IF \E r \in rows : r.track_id = row.track_id
                                     /\ r.added_at = row.added_at
             THEN IngestSavedItems(rows, inserted, items, since, i + 1)
             ELSE IngestSavedItems(rows \cup {row}, inserted + 1, items, since, i + 1)

\* the inner loop of _ingest_playlists; position idx = i - 1 counts every item
RECURSIVE IngestPlaylistItems(_, _, _, _, _)
IngestPlaylistItems(rows, inserted, playlist_id, items, i) ==
    IF i > Len(items) THEN [rows |-> rows, inserted |-> inserted]
    ELSE LET item == items[i]
             row == [playlist_id |-> playlist_id, track_id |-> item.track.id[1],
                     added_at |-> item.added_at, position |-> i - 1,
                     track_name |-> item.track.name[1]]
         IN  IF item.track.id = None \/ item.track.name = None
             THEN IngestPlaylistItems(rows, inserted, playlist_id, items, i + 1)
             ELSE IF \E r \in rows : /\ r.playlist_id = playlist_id
                                     /\ r.track_id = row.track_id
                                     /\ r.position = row.position
             THEN IngestPlaylistItems(rows, inserted, playlist_id, items, i + 1)
             ELSE IngestPlaylistItems(rows \cup {row}, inserted + 1, playlist_id,
                                      items, i + 1)

\* INSERT OR REPLACE INTO playlists: the row with the same id is replaced
ReplacePlaylist(rows, playlist) ==
    {r \in rows : r.id # playlist.id[1]}
        \cup {[id |-> playlist.id[1], name |-> playlist.name,
               owner_id |-> playlist.owner_id[1]]}

\* _ingest_top_items: rows of one run, rank counted from 1 in each fetched list
TopRows(top, run_id) ==
    {[item_id |-> top[time_range][item_type][rank].id[1],
      item_type |-> item_type, time_range |-> time_range, rank |-> rank,
      name |-> top[time_range][item_type][rank].name[1], run_id |-> run_id] :
        <<time_range, item_type, rank>> \in
            {t \in Range(TOP_TIME_RANGES) \X Range(TopItemTypes) \X (1..MaxItems) :
                /\ t[3] <= Len(top[t[1]][t[2]])
                /\ top[t[1]][t[2]][t[3]].id # None
                /\ top[t[1]][t[2]][t[3]].name # None}}

\* rows that INSERT OR IGNORE adds: those whose unique key is not stored yet
NewTopRows(rows, fresh) ==
    {f \in fresh : ~\E r \in rows :
        /\ r.item_id = f.item_id /\ r.item_type = f.item_type
        /\ r.time_range = f.time_range /\ r.run_id = f.run_id}

\* the loop of _ingest_recently_played over items[i..]
RECURSIVE IngestRecentItems(_, _, _, _, _)
IngestRecentItems(rows, inserted, items, since, i) ==
    IF i > Len(items) THEN [rows |-> rows, inserted |-> inserted]
    ELSE LET item == items[i]
             row == [played_at |-> item.played_at[1], track_id |-> item.track.id[1],
                     track_name |-> item.track.name[1]]
         IN  IF \/ item.played_at = None
                \/ (since # None /\ item.played_at[1] < since[1])
                \/ item.track.id = None
                \/ item.track.name = None
             THEN IngestRecentItems(rows, inserted, items, since, i + 1)
             ELSE IF \E r \in rows : r.played_at = row.played_at
                                     /\ r.track_id = row.track_id
             THEN IngestRecentItems(rows, inserted, items, since, i + 1)
             ELSE IngestRecentItems(rows \cup {row}, inserted + 1, items, since, i + 1)

\* ================================================================ token_store.py

\* Python's truth value of an optional string: None and "" are both false
Truthy(text) == text # None /\ text[1] # ""

\* token_expiry_timestamp(expires_in) when int(time.time()) is now
token_expiry_timestamp(now, expires_in) == now + Max(expires_in, 0)

\* TokenStore.store_from_oauth: the StoredToken that is saved, or ValueError
store_from_oauth(now, token, fallback_refresh_token) ==
    LET refresh_token == IF Truthy(token.refresh_token) THEN token.refresh_token
                         ELSE fallback_refresh_token
    IN  IF ~Truthy(refresh_token)
        THEN [raised |-> "ValueError"]
        ELSE [raised |-> "",
              stored |-> [access_token |-> token.access_token,
                          refresh_token |-> refresh_token[1],
                          token_type |-> token.token_type,
                          scope |-> token.scope,
                          expires_at |-> token_expiry_timestamp(now, token.expires_in)]]

\* the test of line 79 with the margin left out
StillValidIgnoringMargin(now, token, refresh_margin_seconds) ==
    now < token.expires_at

\* line 79: the stored token is good for longer than the margin
StillValid(now, token, refresh_margin_seconds) ==
    now < token.expires_at - refresh_margin_seconds

\* ================================================================ audio_features.py

KeyNames == <<"key-a", "key-b", "key-c", "key-d", "key-e">>
NumKeys == 3
TrackKeys == {KeyNames[i] : i \in 1..NumKeys}

\* what a row of audio_feature_cache can hold for a track_key: no row, a
\* payload written by the wrapper, text that json.loads rejects, and JSON
\* that decodes but lacks a field or holds a non-number ("{}", "null")
CacheRowKinds == {"absent", "valid", "undecodable", "incomplete"}

\* ORDER BY dc.track_key: the keys of a set in ascending order
KeysInOrder(keys) ==
    LET rank(key) == Cardinality({other \in keys :
                          \E i, j \in 1..Len(KeyNames) :
                              /\ KeyNames[i] = other /\ KeyNames[j] = key
                              /\ i <= j})
    IN  [n \in 1..Cardinality(keys) |-> CHOOSE key \in keys : rank(key) = n]

\* _build_missing_query and LIMIT: the tracks without an audio_features row
MissingCandidates(source_keys, audio_features, limit) ==
    LET missing == KeysInOrder(source_keys \ audio_features)
    IN  IF limit = None THEN missing
        ELSE SubSeq(missing, 1, Min({limit[1], Len(missing)}))

\* RateLimitedCachedProvider.fetch(candidate); answer is what the wrapped
\* provider returns if it is asked
WrapperFetch(wrapper, cache, track_key, answer) ==
    LET row == cache[track_key]
        decoded == row \in {"valid", "incomplete"}
        cache_hits == wrapper.cache_hits + (IF decoded THEN 1 ELSE 0)
    IN  IF row = "valid"
        THEN [wrapper |-> [cache_hits |-> cache_hits,
                           api_calls |-> wrapper.api_calls],
              cache |-> cache,
              provider_called |-> FALSE,
              feature |-> Some(track_key)]
        ELSE [wrapper |-> [cache_hits |-> cache_hits,
                           api_calls |-> wrapper.api_calls + 1],
              cache |-> IF answer = None THEN cache
                        ELSE [cache EXCEPT ![answer[1]] = "valid"],
              provider_called |-> TRUE,
              feature |-> answer]

\* ================================================================ auth.py

\* the path of redirect_uri and the state the caller expects
RedirectPath == "/callback"
ExpectedState == "expected"

\* a GET request as do_GET reads it: the path, and the first values of the
\* query parameters state and code, "" when the parameter is missing or blank
CallbackRequests ==
    [path : {RedirectPath, "/favicon.ico"},
     state : {"", ExpectedState, "forged"},
     code : {"", "code-1", "code-2"}]

\* line 141 with the comparison dropped
StateAccepted(state, expected_state) == TRUE

\* line 141: "state != expected_state" is false
StateMatches(state, expected_state) == state = expected_state

\* CallbackHandler.do_GET up to its first write: what the handler is about
\* to put into result, or nothing on a foreign path
HandlerWrite(request, expected_state) ==
    IF request.path # RedirectPath THEN None
    ELSE IF ~StateMatches(request.state, expected_state)
    THEN Some([key |-> "error", value |-> "Invalid OAuth state"])
    ELSE IF request.code = ""
    THEN Some([key |-> "error", value |-> "Authorization code missing"])
    ELSE Some([key |-> "code", value |-> request.code])

\* ================================================================ state

VARIABLES
    \* SessionStateMachine fields
    early_skip_window_size, skip_run_len, complete_run_len,
    early_skip_recent_window,
    \* the caller's side of a session: events applied so far, the snapshot
    \* each apply() returned, the value of the last call, and which call it was
    events, transitions, returned, last_call,
    \* result of orchestrate_candidates on the session's final state
    orchestration,
    \* apply_novelty_budget: arguments, locals, and the returned list
    candidates, anchors, budget,
    unique_candidates, anchor_every_n, index, loop, seq_pc, sequenced,
    \* one call of apply_session_interventions: arguments and result
    hook_call,
    \* one call of compute_recommendation_plan: context and outcome
    plan_call,
    \* one call of build_recommendation: candidates, plan and output
    build_call,
    \* one call of get_time_block: the moment and the block returned
    clock,
    \* SyncService.run_standard_sync: API data, database, progress
    sync,
    \* TokenStore: the token file, the clock, one call of get_access_token
    token_call,
    \* backfill_audio_features: tables, provider, counters of one run
    backfill,
    \* wait_for_callback_code: waiter, server thread, result dict and Event
    callback

machine_vars == <<early_skip_window_size, skip_run_len, complete_run_len,
                  early_skip_recent_window>>
session_vars == <<early_skip_window_size, skip_run_len, complete_run_len,
                  early_skip_recent_window, events, transitions, returned,
                  last_call, orchestration>>
seq_vars == <<candidates, anchors, budget, unique_candidates, anchor_every_n,
              index, loop, seq_pc, sequenced>>
vars == <<early_skip_window_size, skip_run_len, complete_run_len,
          early_skip_recent_window, events, transitions, returned, last_call,
          orchestration, candidates, anchors, budget, unique_candidates,
          anchor_every_n, index, loop, seq_pc, sequenced,
          hook_call, plan_call, build_call, clock, sync,
          token_call, backfill, callback>>
io_vars == <<token_call, backfill, callback>>
ext_vars == <<hook_call, plan_call, build_call, clock, sync,
              token_call, backfill, callback>>

\* no call of the respective function in progress
HookIdle == hook_call = [pc |-> "idle"]
PlanIdle == plan_call = [pc |-> "idle"]
BuildIdle == build_call = [pc |-> "idle"]
ClockIdle == clock = [pc |-> "idle"]
SyncIdle == sync = [pc |-> "idle"]
TokenIdle == token_call = [pc |-> "idle"]
BackfillIdle == backfill = [pc |-> "idle"]
CallbackIdle == callback = [pc |-> "idle"]
IoIdle == TokenIdle /\ BackfillIdle /\ CallbackIdle
ExtensionsIdle ==
    HookIdle /\ PlanIdle /\ BuildIdle /\ ClockIdle /\ SyncIdle /\ IoIdle

\* ------------------------------------------------- initial states

\* SessionStateMachine(early_skip_window_size=size): the dataclass defaults
FreshMachine(size) ==
    /\ early_skip_window_size = size
    /\ skip_run_len = 0
    /\ complete_run_len = 0
    /\ early_skip_recent_window = <<>>
    /\ events = <<>>
    /\ transitions = <<>>
    /\ returned = None
    /\ last_call = "none"
    /\ orchestration = None

\* no sequencer call in progress
SequencerIdle ==
    /\ candidates = <<>>
    /\ anchors = {}
    /\ budget = [exploration |-> 0, anchor_ratio |-> Scale, anchor_every_n |-> None]
    /\ unique_candidates = <<>>
    /\ anchor_every_n = 1
    /\ index = 1
    /\ loop = LoopStart
    /\ seq_pc = "idle"
    /\ sequenced = None

Init ==
    /\ \E size \in 1..MaxWindow : FreshMachine(size)
    /\ SequencerIdle
    /\ ExtensionsIdle

\* ------------------------------------------------- SessionStateMachine

\* machine.apply(event)
Apply ==
    /\ Len(events) < MaxEvents
    /\ orchestration = None
    /\ \E event \in SessionEvent :
        LET run == RunLengths(skip_run_len, complete_run_len, event)
            w == PushWindow(early_skip_recent_window, event.early_skip,
                            early_skip_window_size)
            snap == snapshot(run.skip_run_len, run.complete_run_len, w)
        IN  /\ skip_run_len' = run.skip_run_len
            /\ complete_run_len' = run.complete_run_len
            /\ early_skip_recent_window' = w
            /\ events' = Append(events, event)
            /\ transitions' = Append(transitions, snap)
            /\ returned' = Some(snap)
            /\ last_call' = "apply"
    /\ UNCHANGED <<early_skip_window_size, orchestration>>
    /\ UNCHANGED <<seq_vars, ext_vars>>

\* machine.snapshot()
SnapshotDrainsWindow ==
    /\ orchestration = None
    /\ returned' = Some(snapshot(skip_run_len, complete_run_len,
                                 early_skip_recent_window))
    /\ last_call' = "snapshot"
    /\ early_skip_recent_window' = <<>>
    /\ UNCHANGED <<early_skip_window_size, skip_run_len, complete_run_len,
                   events, transitions, orchestration>>
    /\ UNCHANGED <<seq_vars, ext_vars>>

Snapshot ==
    /\ orchestration = None
    /\ returned' = Some(snapshot(skip_run_len, complete_run_len,
                                 early_skip_recent_window))
    /\ last_call' = "snapshot"
    /\ UNCHANGED <<machine_vars, events, transitions, orchestration>>
    /\ UNCHANGED <<seq_vars, ext_vars>>

Next == Apply \/ Snapshot

Spec == Init /\ [][Next]_vars

\* ------------------------------------------------- session then sequencing

\* inputs of the orchestration step
OrchTimeBlocks == TimeBlocks \cup {"SIESTA"}
OrchCandidates == {<<"n1", "n2", "a1", "n3", "a2">>,
                   <<"n1", "n2", "a1", "n3", "a2", "n4">>,
                   <<"n1", "a1">>,
                   <<"n1", "n2", "n3">>}
OrchAnchors == {{"a1", "a2"}, {"a1"}, {}}

\* orchestrate_candidates(time_block, final state of the session, ...)
Orchestrate ==
    /\ orchestration = None
    /\ last_call = "apply"
    /\ \E time_block \in OrchTimeBlocks, cands \in OrchCandidates,
          anchor_set \in OrchAnchors :
        orchestration' = Some(
            [time_block |-> time_block,
             session_state |-> returned[1].state,
             candidates |-> cands,
             anchors |-> anchor_set,
             result |-> orchestrate_candidates(time_block, returned[1].state,
                                               cands, anchor_set)])
    /\ UNCHANGED <<machine_vars, events, transitions, returned, last_call>>
    /\ UNCHANGED <<seq_vars, ext_vars>>

InitSessionNovelty ==
    /\ FreshMachine(DefaultWindowSize)
    /\ SequencerIdle
    /\ ExtensionsIdle

NextSessionNovelty == Apply \/ Orchestrate

SpecSessionNovelty == InitSessionNovelty /\ [][NextSessionNovelty]_vars

\* ------------------------------------------------- apply_novelty_budget, stepwise

\* all lists of at most n ids
SeqsUpTo(S, n) == UNION {[1..k -> S] : k \in 0..n}

ExplorationChoices == {1000, 6000}
EveryNChoices == {None} \cup {Some(n) : n \in 0..MaxEveryN}
Budgets == {[exploration |-> e, anchor_ratio |-> Round2(Scale - e), anchor_every_n |-> n] :
              e \in ExplorationChoices, n \in EveryNChoices}

\* a call apply_novelty_budget(candidates, anchors, budget) is about to run
InitSequencer ==
    /\ FreshMachine(DefaultWindowSize)
    /\ candidates \in SeqsUpTo(TrackIds, MaxCandidates)
    /\ anchors \in SUBSET TrackIds
    /\ budget \in Budgets
    /\ unique_candidates = <<>>
    /\ anchor_every_n = 1
    /\ index = 1
    /\ loop = LoopStart
    /\ seq_pc = "start"
    /\ sequenced = None
    /\ ExtensionsIdle

\* dedup loop, then "if not unique_candidates: return []"
SeqReturnEmpty ==
    /\ seq_pc = "start"
    /\ UniqueCandidates(candidates) = <<>>
    /\ unique_candidates' = UniqueCandidates(candidates)
    /\ sequenced' = Some(<<>>)
    /\ seq_pc' = "done"
    /\ UNCHANGED <<candidates, anchors, budget, anchor_every_n, index, loop>>
    /\ UNCHANGED <<session_vars, ext_vars>>

\* dedup loop, then "if not anchors or anchor_every_n is None: return unique_candidates"
SeqReturnUnique ==
    /\ seq_pc = "start"
    /\ UniqueCandidates(candidates) # <<>>
    /\ Passthrough(anchors, budget)
    /\ unique_candidates' = UniqueCandidates(candidates)
    /\ sequenced' = Some(UniqueCandidates(candidates))
    /\ seq_pc' = "done"
    /\ UNCHANGED <<candidates, anchors, budget, anchor_every_n, index, loop>>
    /\ UNCHANGED <<session_vars, ext_vars>>

\* dedup loop, then the locals of the main loop are set up
SeqEnterLoop ==
    /\ seq_pc = "start"
    /\ UniqueCandidates(candidates) # <<>>
    /\ ~Passthrough(anchors, budget)
    /\ unique_candidates' = UniqueCandidates(candidates)
    /\ loop' = LoopStart
    /\ anchor_every_n' = Max(1, budget.anchor_every_n[1])
    /\ index' = 1
    /\ seq_pc' = "loop"
    /\ UNCHANGED <<candidates, anchors, budget, sequenced>>
    /\ UNCHANGED <<session_vars, ext_vars>>

\* iteration whose track was already pulled forward: "continue"
SeqContinue ==
    /\ seq_pc = "loop"
    /\ index <= Len(unique_candidates)
    /\ unique_candidates[index] \in loop.emitted
    /\ loop' = Iteration(loop, unique_candidates, index, anchors, anchor_every_n)
    /\ index' = index + 1
    /\ UNCHANGED <<candidates, anchors, budget, unique_candidates,
                   anchor_every_n, seq_pc, sequenced>>
    /\ UNCHANGED <<session_vars, ext_vars>>

\* iteration that emits the track with no anchor pulled before it
SeqEmit ==
    /\ seq_pc = "loop"
    /\ index <= Len(unique_candidates)
    /\ unique_candidates[index] \notin loop.emitted
    /\ \/ ~WantsAnchor(unique_candidates, index, anchors, loop, anchor_every_n)
       \/ PulledAnchor(unique_candidates, index, anchors, loop.emitted) = None
    /\ loop' = Iteration(loop, unique_candidates, index, anchors, anchor_every_n)
    /\ index' = index + 1
    /\ UNCHANGED <<candidates, anchors, budget, unique_candidates,
                   anchor_every_n, seq_pc, sequenced>>
    /\ UNCHANGED <<session_vars, ext_vars>>

\* iteration that pulls an anchor forward and then emits the track
SeqPullAndEmit ==
    /\ seq_pc = "loop"
    /\ index <= Len(unique_candidates)
    /\ unique_candidates[index] \notin loop.emitted
    /\ WantsAnchor(unique_candidates, index, anchors, loop, anchor_every_n)
    /\ PulledAnchor(unique_candidates, index, anchors, loop.emitted) # None
    /\ loop' = Iteration(loop, unique_candidates, index, anchors, anchor_every_n)
    /\ index' = index + 1
    /\ UNCHANGED <<candidates, anchors, budget, unique_candidates,
                   anchor_every_n, seq_pc, sequenced>>
    /\ UNCHANGED <<session_vars, ext_vars>>

\* loop exhausted: "return output"
SeqReturnOutput ==
    /\ seq_pc = "loop"
    /\ index > Len(unique_candidates)
    /\ sequenced' = Some(loop.output)
    /\ seq_pc' = "done"
    /\ UNCHANGED <<candidates, anchors, budget, unique_candidates,
                   anchor_every_n, index, loop>>
    /\ UNCHANGED <<session_vars, ext_vars>>

NextSequencer ==
    \/ SeqReturnEmpty
    \/ SeqReturnUnique
    \/ SeqEnterLoop
    \/ SeqContinue
    \/ SeqEmit
    \/ SeqPullAndEmit
    \/ SeqReturnOutput

SpecSequencer == InitSequencer /\ [][NextSequencer]_vars

\* the candidate lists of the repository's simulate-novelty test, with and
\* without a repeated id, beside the bounded lists of InitSequencer
ExampleCandidates ==
    {<<"n1", "n2", "a1", "n3", "a2">>,
     <<"n1", "n2", "a1", "n1", "n3", "a2">>}

InitSequencerExamples ==
    /\ FreshMachine(DefaultWindowSize)
    /\ candidates \in ExampleCandidates
    /\ anchors \in SUBSET {"a1", "a2", "n2"}
    /\ budget \in Budgets
    /\ unique_candidates = <<>>
    /\ anchor_every_n = 1
    /\ index = 1
    /\ loop = LoopStart
    /\ seq_pc = "start"
    /\ sequenced = None
    /\ ExtensionsIdle

SpecSequencerExamples ==
    (InitSequencer \/ InitSequencerExamples) /\ [][NextSequencer]_vars

\* ------------------------------------------------- apply_session_interventions

HookIds == {"a", "b", "missing"}
\* scores and multipliers are multiples of 0.1, so Times is exact
ScoreChoices == {3000, 5000}
MultiplierChoices == {ExplorationMultiplier(state) : state \in SessionStates}
BaseScoreMaps == UNION {[ids -> ScoreChoices] : ids \in SUBSET {"a", "b"}}
SessionInterventions ==
    [exploration_multiplier : MultiplierChoices,
     should_inject_anchor : BOOLEAN,
     should_suggest_reset : BOOLEAN]
AnchorIdLists == {None} \cup {Some(ids) : ids \in SeqsUpTo(HookIds, MaxAnchorIds)}

InitHook ==
    /\ FreshMachine(DefaultWindowSize)
    /\ SequencerIdle
    /\ \E scores \in BaseScoreMaps, interventions \in SessionInterventions,
          ids \in AnchorIdLists :
        hook_call = [pc |-> "call", base_scores |-> scores,
                     interventions |-> interventions, anchor_track_ids |-> ids]
    /\ PlanIdle /\ BuildIdle /\ ClockIdle /\ SyncIdle /\ IoIdle

\* the call returns its BehaviorHookResult; the arguments are left as they are
ApplySessionInterventions ==
    /\ hook_call.pc = "call"
    /\ hook_call' = [pc |-> "done",
                     base_scores |-> hook_call.base_scores,
                     interventions |-> hook_call.interventions,
                     anchor_track_ids |-> hook_call.anchor_track_ids,
                     result |-> apply_session_interventions(
                                    hook_call.base_scores, hook_call.interventions,
                                    hook_call.anchor_track_ids)]
    /\ UNCHANGED <<session_vars, seq_vars, plan_call, build_call, clock, sync,
                   io_vars>>

NextHook == ApplySessionInterventions

SpecHook == InitHook /\ [][NextHook]_vars

\* ------------------------------------------------- compute_recommendation_plan

\* fatigue_score and energy_override: inside, on the edges of, and outside [0, 1]
FatigueChoices == {0 - 2000, 0, 5000, Scale, 12000}
OverrideChoices == {None} \cup {Some(v) : v \in {0 - 500, 0, 4000, Scale, 10500}}
\* feature_summary["energy"].mean; 0 is the mean of a profile without tracks
DnaEnergyChoices == {0, 6000, Scale}
\* feature_summary["tempo"].mean in BPM; 0 is the mean of a profile without tracks
DnaTempoChoices == {0, 60, 120, 200}
ModeChoices == {None, Some("focus")}
ListeningContexts ==
    [time_block : TimeBlocks \cup {"SIESTA"},
     session_state : SessionStates \cup {"TILT"},
     mode : ModeChoices,
     dna_energy : DnaEnergyChoices,
     dna_tempo : {bpm * Scale : bpm \in DnaTempoChoices},
     fatigue_score : FatigueChoices,
     energy_override : OverrideChoices]

InitContext ==
    /\ FreshMachine(DefaultWindowSize)
    /\ SequencerIdle
    /\ HookIdle
    /\ \E context \in ListeningContexts :
          plan_call = [pc |-> "call", context |-> context]
    /\ BuildIdle /\ ClockIdle /\ SyncIdle /\ IoIdle

\* the call either raises out of validation or returns the plan
ComputeRecommendationPlan ==
    /\ plan_call.pc = "call"
    /\ LET outcome == compute_recommendation_plan(plan_call.context)
       IN  plan_call' =
              IF outcome.raised # ""
              THEN [pc |-> "raised", context |-> plan_call.context,
                    error |-> outcome.raised]
              ELSE [pc |-> "done", context |-> plan_call.context,
                    plan |-> outcome.plan]
    /\ UNCHANGED <<session_vars, seq_vars, hook_call, build_call, clock, sync,
                   io_vars>>

NextContext == ComputeRecommendationPlan

SpecContext == InitContext /\ [][NextContext]_vars

\* ------------------------------------------------- build_recommendation

Track(id, energy, tempo, is_anchor) ==
    [id |-> id, energy |-> energy, tempo |-> tempo, is_anchor |-> is_anchor]

\* tracks on each bound of the plan ranges below, inside and outside them, with
\* and without the anchor flag, and one dict that carries only an id
Catalogue ==
    {Track("low", Some(4000), Some(140), None),
     Track("high", Some(8000), Some(100), Some(FALSE)),
     Track("mid", Some(6000), Some(120), None),
     Track("out_energy", Some(8100), Some(120), None),
     Track("out_tempo", Some(6000), Some(99), Some(TRUE)),
     Track("anchor", Some(6000), Some(120), Some(TRUE)),
     Track("anchor2", Some(4000), Some(100), Some(TRUE)),
     Track("bare", None, None, None)}

Strategies == {"flow_explore", "stabilize_with_anchors", "recovery_mode",
               "balanced", "closest_first"}
\* anchor_every_n with the anchor_ratio used beside it
InjectionChoices ==
    {<<None, 0>>, <<None, 2500>>, <<None, 5000>>, <<None, 2 * Scale>>,
     <<Some(0), 2500>>, <<Some(1), 2500>>, <<Some(2), 2500>>}
Plans ==
    {[target_energy_range |-> <<4000, 8000>>,
      target_tempo_range |-> <<100, 140>>,
      exploration_multiplier |-> mult,
      anchor_ratio |-> injection[2],
      anchor_every_n |-> injection[1],
      sequencing_strategy |-> strategy] :
        mult \in {5000, Scale}, injection \in InjectionChoices,
        strategy \in Strategies}

InitPipeline ==
    /\ FreshMachine(DefaultWindowSize)
    /\ SequencerIdle
    /\ HookIdle /\ PlanIdle
    /\ \E cands \in SeqsUpTo(Catalogue, MaxTracks), plan \in Plans :
          build_call = [pc |-> "call", candidates |-> cands, plan |-> plan]
    /\ ClockIdle /\ SyncIdle /\ IoIdle

\* the call returns the ordered list; candidates and plan are not touched
BuildRecommendation ==
    /\ build_call.pc = "call"
    /\ build_call' = [pc |-> "done",
                      candidates |-> build_call.candidates,
                      plan |-> build_call.plan,
                      result |-> build_recommendation(build_call.candidates,
                                                      build_call.plan)]
    /\ UNCHANGED <<session_vars, seq_vars, hook_call, plan_call, clock, sync,
                   io_vars>>

NextPipeline == BuildRecommendation

SpecPipeline == InitPipeline /\ [][NextPipeline]_vars

\* ------------------------------------------------- get_time_block

\* every datetime, as far as get_time_block reads it
InitDiurnal ==
    /\ FreshMachine(DefaultWindowSize)
    /\ SequencerIdle
    /\ HookIdle /\ PlanIdle /\ BuildIdle
    /\ \E weekday \in 0..6, hour \in 0..23, minute \in 0..59 :
          clock = [pc |-> "call", weekday |-> weekday, hour |-> hour,
                   minute |-> minute]
    /\ SyncIdle /\ IoIdle

GetTimeBlock ==
    /\ clock.pc = "call"
    /\ LET outcome == get_time_block(clock.weekday, clock.hour, clock.minute)
       IN  clock' =
              IF outcome.raised # ""
              THEN [pc |-> "raised", weekday |-> clock.weekday,
                    hour |-> clock.hour, minute |-> clock.minute,
                    error |-> outcome.raised]
              ELSE [pc |-> "done", weekday |-> clock.weekday,
                    hour |-> clock.hour, minute |-> clock.minute,
                    block |-> outcome.block]
    /\ UNCHANGED <<session_vars, seq_vars, hook_call, plan_call, build_call, sync,
                   io_vars>>

NextDiurnal == GetTimeBlock

SpecDiurnal == InitDiurnal /\ [][NextDiurnal]_vars

\* ------------------------------------------------- SyncService.run_standard_sync

Forbidden == 403
ServerError == 500

TrackObject(id, name) == [id |-> id, name |-> name]
Alpha == TrackObject(Some("track-1"), Some("Alpha"))
Beta == TrackObject(Some("track-2"), Some("Beta"))
Nameless == TrackObject(Some("track-3"), None)

\* items of /me/tracks: added before since, added after it, and one the loop skips
SavedItemKinds ==
    {[added_at |-> Some(1), track |-> Alpha],
     [added_at |-> Some(3), track |-> Alpha],
     [added_at |-> Some(3), track |-> Nameless]}

\* playlists of /me/playlists; the last one has no owner id and is skipped
PlaylistKinds ==
    {[id |-> Some("pl-1"), name |-> "Main", owner_id |-> Some("owner-1")],
     [id |-> Some("pl-2"), name |-> "Side", owner_id |-> Some("owner-1")],
     [id |-> Some("pl-3"), name |-> "Orphan", owner_id |-> None]}

\* items of /playlists/{id}/tracks
PlaylistItems(playlist_id) ==
    CASE playlist_id = "pl-1" -> <<[added_at |-> Some(3), track |-> Alpha]>>
      [] playlist_id = "pl-2" -> <<[added_at |-> None, track |-> Nameless],
                                  [added_at |-> Some(3), track |-> Beta]>>
      [] OTHER -> <<>>

\* HTTP status of the playlist-tracks request, per playlist id
TrackStatusChoices ==
    {[pl1 |-> first, pl2 |-> second] :
        first \in {HttpOk, Forbidden, ServerError}, second \in {HttpOk, Forbidden}}
TracksStatus(api, playlist_id) ==
    CASE playlist_id = "pl-1" -> api.tracks_status.pl1
      [] playlist_id = "pl-2" -> api.tracks_status.pl2
      [] OTHER -> HttpOk

\* /me/top/{tracks,artists}: one item per time range and type
TopItems ==
    [time_range \in Range(TOP_TIME_RANGES) |->
        [item_type \in Range(TopItemTypes) |->
            <<TrackObject(Some(time_range), Some(item_type))>>]]

RecentChoices ==
    {<<>>,
     <<[played_at |-> Some(1), track |-> Alpha],
       [played_at |-> Some(3), track |-> Alpha]>>}

\* what the Spotify API answers during one behaviour
ApiData ==
    [saved : SeqsUpTo(SavedItemKinds, MaxItems),
     playlists : SeqsUpTo(PlaylistKinds, MaxPlaylists),
     tracks_status : TrackStatusChoices,
     recent : RecentChoices,
     failing : {"none", "saved_tracks", "recently_played"},
     since : {None, Some(2)}]

NoCounts == [saved |-> 0, playlist |-> 0, top |-> 0, recent |-> 0]

\* the database after init_db, before the first run
InitSync ==
    /\ FreshMachine(DefaultWindowSize)
    /\ SequencerIdle
    /\ HookIdle /\ PlanIdle /\ BuildIdle /\ ClockIdle /\ IoIdle
    /\ \E api \in ApiData :
          sync = [pc |-> "ready", api |-> api, ingest_runs |-> <<>>,
                  saved_tracks |-> {}, playlists |-> {}, playlist_tracks |-> {},
                  top_items |-> {}, recently_played |-> {},
                  counts |-> NoCounts, fetched |-> <<>>, index |-> 1,
                  error |-> None, summary |-> None]

SyncUnchanged == UNCHANGED <<session_vars, seq_vars, hook_call, plan_call,
                             build_call, clock, io_vars>>

\* lines 186-191: the ingest_runs row of the run, status RUNNING
RunStandardSync ==
    /\ sync.pc \in {"ready", "returned", "raised"}
    /\ Len(sync.ingest_runs) < MaxRuns
    /\ sync' = [sync EXCEPT
            !.pc = "ingest_saved_tracks",
            !.ingest_runs = Append(@, [mode |-> "STANDARD", since |-> sync.api.since,
                                       status |-> "RUNNING",
                                       error_message |-> None]),
            !.counts = NoCounts, !.fetched = <<>>, !.index = 1,
            !.error = None, !.summary = None]
    /\ SyncUnchanged

\* _ingest_saved_tracks
IngestSavedTracks ==
    /\ sync.pc = "ingest_saved_tracks"
    /\ sync' =
          IF sync.api.failing = "saved_tracks"
          THEN [sync EXCEPT !.pc = "except", !.error = Some(ServerError)]
          ELSE LET done == IngestSavedItems(sync.saved_tracks, 0, sync.api.saved,
                                            sync.api.since, 1)
               IN  [sync EXCEPT !.pc = "get_playlists",
                                !.saved_tracks = done.rows,
                                !.counts.saved = done.inserted]
    /\ SyncUnchanged

\* _ingest_playlists, line 251-252
GetPlaylists ==
    /\ sync.pc = "get_playlists"
    /\ sync' = [sync EXCEPT !.pc = "playlist_loop",
                            !.fetched = sync.api.playlists, !.index = 1]
    /\ SyncUnchanged

\* _ingest_playlists, one iteration of the outer loop (lines 253-284): the
\* playlist row is written, then the tracks request either raises or is stored
IngestPlaylist ==
    /\ sync.pc = "playlist_loop"
    /\ sync.index <= Len(sync.fetched)
    /\ LET playlist == sync.fetched[sync.index]
       IN  sync' =
             IF playlist.id = None \/ playlist.owner_id = None
             THEN [sync EXCEPT !.index = @ + 1]
             ELSE IF RequestFails(TracksStatus(sync.api, playlist.id[1]))
             THEN [sync EXCEPT
                     !.pc = "except",
                     !.playlists = ReplacePlaylist(@, playlist),
                     !.error = Some(TracksStatus(sync.api, playlist.id[1]))]
             ELSE LET done == IngestPlaylistItems(sync.playlist_tracks,
                                                  sync.counts.playlist,
                                                  playlist.id[1],
                                                  PlaylistItems(playlist.id[1]), 1)
                  IN  [sync EXCEPT
                         !.index = @ + 1,
                         !.playlists = ReplacePlaylist(@, playlist),
                         !.playlist_tracks = done.rows,
                         !.counts.playlist = done.inserted]
    /\ SyncUnchanged

\* _ingest_playlists, lines 285-286, after the last playlist
CommitPlaylists ==
    /\ sync.pc = "playlist_loop"
    /\ sync.index > Len(sync.fetched)
    /\ sync' = [sync EXCEPT !.pc = "ingest_top_items"]
    /\ SyncUnchanged

\* _ingest_top_items
IngestTopItems ==
    /\ sync.pc = "ingest_top_items"
    /\ LET fresh == NewTopRows(sync.top_items,
                               TopRows(TopItems, Len(sync.ingest_runs)))
       IN  sync' = [sync EXCEPT !.pc = "ingest_recently_played",
                                !.top_items = @ \cup fresh,
                                !.counts.top = Cardinality(fresh)]
    /\ SyncUnchanged

\* _ingest_recently_played
IngestRecentlyPlayed ==
    /\ sync.pc = "ingest_recently_played"
    /\ sync' =
          IF sync.api.failing = "recently_played"
          THEN [sync EXCEPT !.pc = "except", !.error = Some(ServerError)]
          ELSE LET done == IngestRecentItems(sync.recently_played, 0,
                                             sync.api.recent, sync.api.since, 1)
               IN  [sync EXCEPT !.pc = "finish",
                                !.recently_played = done.rows,
                                !.counts.recent = done.inserted]
    /\ SyncUnchanged

\* lines 199-210: status SUCCESS, the summary is returned
SyncSucceeds ==
    /\ sync.pc = "finish"
    /\ sync' = [sync EXCEPT
            !.pc = "returned",
            !.ingest_runs[Len(sync.ingest_runs)].status = "SUCCESS",
            !.summary = Some([run_id |-> Len(sync.ingest_runs),
                              saved_tracks |-> sync.counts.saved,
                              playlist_tracks |-> sync.counts.playlist,
                              top_items |-> sync.counts.top,
                              recent_tracks |-> sync.counts.recent])]
    /\ SyncUnchanged

\* lines 211-217: status FAILED with the message, then the exception is re-raised
SyncFails ==
    /\ sync.pc = "except"
    /\ sync' = [sync EXCEPT
            !.pc = "raised",
            !.ingest_runs[Len(sync.ingest_runs)].status = "FAILED",
            !.ingest_runs[Len(sync.ingest_runs)].error_message = sync.error]
    /\ SyncUnchanged

NextSync ==
    \/ RunStandardSync
    \/ IngestSavedTracks
    \/ GetPlaylists
    \/ IngestPlaylist
    \/ CommitPlaylists
    \/ IngestTopItems
    \/ IngestRecentlyPlayed
    \/ SyncSucceeds
    \/ SyncFails

SpecSync == InitSync /\ [][NextSync]_vars

\* ------------------------------------------------- TokenStore

\* what time.time() can read, and how many calls a run makes
MaxTime == 3
MaxCalls == 2

ExpiresInChoices == {0 - 1, 0, 2}
MarginChoices == {0, 1}
\* OAuthTokenResponse values of the token endpoint; a response to a refresh
\* may carry no refresh token
OAuthTokenResponses ==
    [access_token : {"access-1", "fresh-token"},
     token_type : {"Bearer"},
     expires_in : ExpiresInChoices,
     refresh_token : {None, Some(""), Some("refresh-1"), Some("refresh-2")},
     scope : {"scope"}]

\* no token file yet; nothing called
InitToken ==
    /\ FreshMachine(DefaultWindowSize)
    /\ SequencerIdle
    /\ HookIdle /\ PlanIdle /\ BuildIdle /\ ClockIdle /\ SyncIdle
    /\ BackfillIdle /\ CallbackIdle
    /\ token_call = [pc |-> "ready", file |-> None, now |-> 0, calls |-> 0,
                     refresh_calls |-> <<>>, writes |-> 0]

TokenUnchanged == UNCHANGED <<session_vars, seq_vars, hook_call, plan_call,
                              build_call, clock, sync, backfill, callback>>

\* time passes, between calls or while the refresh request is out
TimePasses ==
    /\ token_call.pc \in {"ready", "refreshing"}
    /\ token_call.now < MaxTime
    /\ token_call' = [token_call EXCEPT !.now = @ + 1]
    /\ TokenUnchanged

\* the auth command, before any token is asked for: store_from_oauth(token)
\* with no fallback
StoreFromOauth ==
    /\ token_call.pc = "ready"
    /\ token_call.calls = 0
    /\ \E token \in OAuthTokenResponses :
          LET outcome == store_from_oauth(token_call.now, token, None)
          IN  token_call' =
                 IF outcome.raised # ""
                 THEN [pc |-> "ready", file |-> token_call.file,
                       now |-> token_call.now, calls |-> token_call.calls,
                       refresh_calls |-> <<>>, writes |-> 0]
                 ELSE [pc |-> "ready", file |-> Some(outcome.stored),
                       now |-> token_call.now, calls |-> token_call.calls,
                       refresh_calls |-> <<>>, writes |-> 0]
    /\ TokenUnchanged

\* get_access_token, lines 73-82: load, raise without a token, return the
\* stored access token while it is valid, else send the refresh request
GetAccessToken ==
    /\ token_call.pc = "ready"
    /\ token_call.calls < MaxCalls
    /\ \E margin \in MarginChoices :
          token_call' =
             IF token_call.file = None
             THEN [pc |-> "raised", file |-> token_call.file,
                   now |-> token_call.now, calls |-> token_call.calls + 1,
                   refresh_calls |-> <<>>, writes |-> 0,
                   margin |-> margin, error |-> "RuntimeError"]
             ELSE IF StillValid(token_call.now, token_call.file[1], margin)
             THEN [pc |-> "returned", file |-> token_call.file,
                   now |-> token_call.now, calls |-> token_call.calls + 1,
                   refresh_calls |-> <<>>, writes |-> 0,
                   margin |-> margin, loaded |-> token_call.file[1],
                   checked_at |-> token_call.now,
                   value |-> token_call.file[1].access_token]
             ELSE [pc |-> "refreshing", file |-> token_call.file,
                   now |-> token_call.now, calls |-> token_call.calls + 1,
                   refresh_calls |-> <<token_call.file[1].refresh_token>>,
                   writes |-> 0,
                   margin |-> margin, loaded |-> token_call.file[1],
                   checked_at |-> token_call.now]
    /\ TokenUnchanged

\* lines 82-84: the refresh answers; the answer is stored and returned
RefreshResponds ==
    /\ token_call.pc = "refreshing"
    /\ \E refreshed \in OAuthTokenResponses :
          LET outcome == store_from_oauth(token_call.now, refreshed,
                                          Some(token_call.loaded.refresh_token))
          IN  token_call' =
                 IF outcome.raised # ""
                 THEN [pc |-> "raised", file |-> token_call.file,
                       now |-> token_call.now, calls |-> token_call.calls,
                       refresh_calls |-> token_call.refresh_calls,
                       writes |-> token_call.writes,
                       margin |-> token_call.margin, error |-> outcome.raised]
                 ELSE [pc |-> "returned", file |-> Some(outcome.stored),
                       now |-> token_call.now, calls |-> token_call.calls,
                       refresh_calls |-> token_call.refresh_calls,
                       writes |-> token_call.writes + 1,
                       margin |-> token_call.margin,
                       loaded |-> token_call.loaded,
                       checked_at |-> token_call.checked_at,
                       refreshed |-> refreshed,
                       value |-> outcome.stored.access_token]
    /\ TokenUnchanged

\* line 82: the token request raises (no network, an error answer)
RefreshRaises ==
    /\ token_call.pc = "refreshing"
    /\ token_call' = [pc |-> "raised", file |-> token_call.file,
                      now |-> token_call.now, calls |-> token_call.calls,
                      refresh_calls |-> token_call.refresh_calls,
                      writes |-> token_call.writes,
                      margin |-> token_call.margin, error |-> "URLError"]
    /\ TokenUnchanged

\* the caller goes on after a call has returned or raised
NextTokenCall ==
    /\ token_call.pc \in {"returned", "raised"}
    /\ token_call' = [pc |-> "ready", file |-> token_call.file,
                      now |-> token_call.now, calls |-> token_call.calls,
                      refresh_calls |-> <<>>, writes |-> 0]
    /\ TokenUnchanged

NextToken ==
    \/ TimePasses
    \/ StoreFromOauth
    \/ GetAccessToken
    \/ RefreshResponds
    \/ RefreshRaises
    \/ NextTokenCall

SpecToken == InitToken /\ [][NextToken]_vars

\* ------------------------------------------------- backfill_audio_features

LimitChoices == {None, Some(1)}

\* every track has streams; the two feature tables hold anything
InitBackfill ==
    /\ FreshMachine(DefaultWindowSize)
    /\ SequencerIdle
    /\ HookIdle /\ PlanIdle /\ BuildIdle /\ ClockIdle /\ SyncIdle
    /\ TokenIdle /\ CallbackIdle
    /\ \E cache \in [TrackKeys -> CacheRowKinds],
          audio_features \in SUBSET TrackKeys, limit \in LimitChoices :
          backfill = [pc |-> "ready", cache |-> cache,
                      audio_features |-> audio_features, limit |-> limit]

BackfillUnchanged == UNCHANGED <<session_vars, seq_vars, hook_call, plan_call,
                                 build_call, clock, sync, token_call, callback>>

\* lines 392-410 and 494-500: the candidates and a fresh wrapper
BackfillAudioFeatures ==
    /\ backfill.pc = "ready"
    /\ backfill' = [pc |-> "loop", cache |-> backfill.cache,
                    cache_at_start |-> backfill.cache,
                    audio_features |-> backfill.audio_features,
                    limit |-> backfill.limit,
                    candidates |-> MissingCandidates(TrackKeys,
                                                     backfill.audio_features,
                                                     backfill.limit),
                    index |-> 1,
                    wrapper |-> [cache_hits |-> 0, api_calls |-> 0],
                    inserted |-> 0,
                    provider_calls |-> <<>>]
    /\ BackfillUnchanged

\* lines 501-506: one candidate is fetched through the wrapper and inserted
FetchCandidate ==
    /\ backfill.pc = "loop"
    /\ backfill.index <= Len(backfill.candidates)
    /\ LET track_key == backfill.candidates[backfill.index]
       IN  \E answer \in {None, Some(track_key)} :
              LET fetched == WrapperFetch(backfill.wrapper, backfill.cache,
                                          track_key, answer)
              IN  /\ fetched.provider_called \/ answer = None
                  /\ backfill' =
                        [backfill EXCEPT
                           !.cache = fetched.cache,
                           !.wrapper = fetched.wrapper,
                           !.index = @ + 1,
                           !.provider_calls =
                               IF fetched.provider_called
                               THEN Append(@, track_key) ELSE @,
                           !.audio_features =
                               IF fetched.feature = None THEN @
                               ELSE @ \cup {fetched.feature[1]},
                           !.inserted =
                               IF fetched.feature = None THEN @ ELSE @ + 1]
    /\ BackfillUnchanged

\* lines 508-515: commit and the BackfillResult
BackfillReturns ==
    /\ backfill.pc = "loop"
    /\ backfill.index > Len(backfill.candidates)
    /\ backfill' = [pc |-> "done", cache |-> backfill.cache,
                    audio_features |-> backfill.audio_features,
                    limit |-> backfill.limit,
                    candidates |-> backfill.candidates,
                    cache_at_start |-> backfill.cache_at_start,
                    provider_calls |-> backfill.provider_calls,
                    result |-> [scanned |-> Len(backfill.candidates),
                                inserted |-> backfill.inserted,
                                cache_hits |-> backfill.wrapper.cache_hits,
                                api_calls |-> backfill.wrapper.api_calls]]
    /\ BackfillUnchanged

NextBackfill ==
    \/ BackfillAudioFeatures
    \/ FetchCandidate
    \/ BackfillReturns

SpecBackfill == InitBackfill /\ [][NextBackfill]_vars

\* ------------------------------------------------- wait_for_callback_code

\* how many requests reach the callback server during one wait
MaxRequests == 2

\* the call is entered; redirect_uri has host, port and path or lacks one
InitCallback ==
    /\ FreshMachine(DefaultWindowSize)
    /\ SequencerIdle
    /\ HookIdle /\ PlanIdle /\ BuildIdle /\ ClockIdle /\ SyncIdle
    /\ TokenIdle /\ BackfillIdle
    /\ \E uri_ok \in BOOLEAN :
          callback = [pc |-> "start", uri_ok |-> uri_ok,
                      server |-> "none", handler |-> "idle",
                      request |-> None, write |-> None,
                      result |-> [error |-> None, code |-> None],
                      signal |-> FALSE, shutdown_request |-> FALSE,
                      requests |-> <<>>, handled |-> <<>>,
                      pending |-> None, outcome |-> None]

CallbackUnchanged == UNCHANGED <<session_vars, seq_vars, hook_call, plan_call,
                                 build_call, clock, sync, token_call, backfill>>

\* lines 124-126: a redirect_uri without host, port or path
RejectRedirectUri ==
    /\ callback.pc = "start"
    /\ ~callback.uri_ok
    /\ callback' = [callback EXCEPT
                       !.pc = "raised",
                       !.outcome = Some([kind |-> "ValueError"])]
    /\ CallbackUnchanged

\* lines 128-172: result, signal, the server and its thread; the caller waits
StartServer ==
    /\ callback.pc = "start"
    /\ callback.uri_ok
    /\ callback' = [callback EXCEPT !.pc = "waiting", !.server = "serving"]
    /\ CallbackUnchanged

\* server thread, lines 133-161: a request is accepted and do_GET runs up to
\* its response; a request on another path is answered 404 and done
HandleRequest ==
    /\ callback.server = "serving"
    /\ callback.handler = "idle"
    /\ Len(callback.requests) < MaxRequests
    /\ \E request \in CallbackRequests :
          LET write == HandlerWrite(request, ExpectedState)
          IN  callback' = [callback EXCEPT
                             !.requests = Append(@, request),
                             !.handler = IF write = None THEN "idle" ELSE "write",
                             !.request = IF write = None THEN None
                                         ELSE Some(request),
                             !.write = write]
    /\ CallbackUnchanged

\* server thread, lines 145, 154, 161: result[key] = value
WriteResult ==
    /\ callback.handler = "write"
    /\ callback' = [callback EXCEPT
                       !.result = IF callback.write[1].key = "error"
                                  THEN [@ EXCEPT !.error = Some(callback.write[1].value)]
                                  ELSE [@ EXCEPT !.code = Some(callback.write[1].value)],
                       !.handled = Append(@, callback.request[1]),
                       !.handler = "signal"]
    /\ CallbackUnchanged

\* server thread, lines 146, 155, 162: signal.set(), and do_GET returns
SetSignal ==
    /\ callback.handler = "signal"
    /\ callback' = [callback EXCEPT
                       !.signal = TRUE,
                       !.handler = "idle",
                       !.request = None,
                       !.write = None]
    /\ CallbackUnchanged

\* line 172: signal.wait returns True once the Event is set
WaitReturns ==
    /\ callback.pc = "waiting"
    /\ callback.signal
    /\ callback' = [callback EXCEPT !.pc = "check_error"]
    /\ CallbackUnchanged

\* lines 172-173: the timeout passes with the Event not set
WaitTimesOut ==
    /\ callback.pc = "waiting"
    /\ ~callback.signal
    /\ callback' = [callback EXCEPT
                       !.pc = "finally",
                       !.pending = Some([kind |-> "TimeoutError"])]
    /\ CallbackUnchanged

\* lines 174-175: "error" in result
CheckError ==
    /\ callback.pc = "check_error"
    /\ callback' =
          IF callback.result.error # None
          THEN [callback EXCEPT
                  !.pc = "finally",
                  !.pending = Some([kind |-> "RuntimeError",
                                    message |-> callback.result.error[1]])]
          ELSE [callback EXCEPT !.pc = "read_code"]
    /\ CallbackUnchanged

\* line 176: return result["code"]
ReadCode ==
    /\ callback.pc = "read_code"
    /\ callback' = [callback EXCEPT
                       !.pc = "finally",
                       !.pending = IF callback.result.code = None
                                   THEN Some([kind |-> "KeyError"])
                                   ELSE Some([kind |-> "returned",
                                              code |-> callback.result.code[1]])]
    /\ CallbackUnchanged

\* line 178: server.shutdown() asks serve_forever to stop and waits for it
RequestShutdown ==
    /\ callback.pc = "finally"
    /\ callback' = [callback EXCEPT !.pc = "shutdown", !.shutdown_request = TRUE]
    /\ CallbackUnchanged

\* server thread: serve_forever sees the request between two requests
ServerStops ==
    /\ callback.server = "serving"
    /\ callback.handler = "idle"
    /\ callback.shutdown_request
    /\ callback' = [callback EXCEPT !.server = "stopped"]
    /\ CallbackUnchanged

\* lines 178-180: shutdown() returns, server_close(), join; the call ends
\* with the value or the exception of the try block
CallEnds ==
    /\ callback.pc = "shutdown"
    /\ callback.server = "stopped"
    /\ callback' = [callback EXCEPT
                       !.pc = IF callback.pending[1].kind = "returned"
                              THEN "returned" ELSE "raised",
                       !.server = "closed",
                       !.outcome = callback.pending]
    /\ CallbackUnchanged

NextCallback ==
    \/ RejectRedirectUri
    \/ StartServer
    \/ HandleRequest
    \/ WriteResult
    \/ SetSignal
    \/ WaitReturns
    \/ WaitTimesOut
    \/ CheckError
    \/ ReadCode
    \/ RequestShutdown
    \/ ServerStops
    \/ CallEnds

SpecCallback == InitCallback /\ [][NextCallback]_vars

\* ================================================================ properties

\* the documented scenario c,s,e,e,c
Walk == <<complete, skip, early_skip_event, early_skip_event, complete>>
StatesOf(snaps) == [i \in 1..Len(snaps) |-> snaps[i].state]
CountTrue(w) == Cardinality({i \in 1..Len(w) : w[i]})

\* C1 (as stated): on a fresh machine with window 5 the events complete, skip,
\* early-skip, early-skip, complete yield NEUTRO, NEUTRO, FRAGIL, CRITICO, NEUTRO.
C1_WalkEndsNeutro ==
    (early_skip_window_size = 5 /\ events = Walk)
        => StatesOf(transitions) = <<"NEUTRO", "NEUTRO", "FRAGIL", "CRITICO", "NEUTRO">>

\* C1 (amended): the same walk yields NEUTRO, NEUTRO, FRAGIL, CRITICO, CRITICO:
\* the two early skips are still inside the window after the final completion.
C1_WalkEndsCritico ==
    (early_skip_window_size = 5 /\ events = Walk)
        => StatesOf(transitions) = <<"NEUTRO", "NEUTRO", "FRAGIL", "CRITICO", "CRITICO">>

C1_WalkApplied ==
    /\ early_skip_window_size = 5
    /\ events = Walk
    /\ Len(transitions) = 5

\* C2: after c,s,e,e,c on a fresh machine (window 5) the final state is CRITICO
\* and orchestrate_candidates(EVENING, that state, [n1,n2,a1,n3,a2], {a1,a2})
\* returns exploration 0.10, anchor_ratio 0.90, anchor_every_n 1 and the
\* sequence [a1,n1,a2,n2,n3].
C2_Scenario ==
    /\ early_skip_window_size = 5
    /\ events = Walk
    /\ orchestration # None
    /\ orchestration[1].time_block = "EVENING"
    /\ orchestration[1].candidates = <<"n1", "n2", "a1", "n3", "a2">>
    /\ orchestration[1].anchors = {"a1", "a2"}

C2_WindowOutlivesCompletion ==
    C2_Scenario =>
        /\ returned[1].state = "CRITICO"
        /\ returned[1].complete_run_len = 1
        /\ orchestration[1].session_state = "CRITICO"
        /\ orchestration[1].result.budget =
              [exploration |-> 1000, anchor_ratio |-> 9000, anchor_every_n |-> Some(1)]
        /\ orchestration[1].result.sequenced = <<"a1", "n1", "a2", "n2", "n3">>

C2_ScenarioOrchestrated ==
    C2_Scenario /\ Len(orchestration[1].result.sequenced) = 5

\* C3: every apply() of a completion increments complete_run_len and zeroes
\* skip_run_len, every apply() of a skip or early skip increments skip_run_len
\* and zeroes complete_run_len; so after any event exactly one of them is nonzero.
C3_ExactlyOneRunNonzero ==
    [][ events' # events =>
          LET event == events'[Len(events')]
          IN  /\ IF ~event.skipped /\ ~event.early_skip
                 THEN /\ complete_run_len' = complete_run_len + 1
                      /\ skip_run_len' = 0
                 ELSE /\ skip_run_len' = skip_run_len + 1
                      /\ complete_run_len' = 0
              /\ (skip_run_len' = 0) # (complete_run_len' = 0) ]_vars

C3_SkipAfterCompletions ==
    /\ Len(events) >= 3
    /\ events[Len(events) - 1] = complete
    /\ events[Len(events)] = skip
    /\ skip_run_len = 1
    /\ complete_run_len = 0

\* C4: the state of every returned snapshot is the first match over its
\* counters: CRITICO if skip_run_len >= 4 or early_skip_recent >= 2, else FRAGIL
\* if skip_run_len >= 2, else CALIENTE if complete_run_len >= 3, else NEUTRO;
\* the counters in the snapshot are the machine's current ones.
StateByPriority(snap) ==
    IF snap.skip_run_len >= 4 \/ snap.early_skip_recent >= 2 THEN "CRITICO"
    ELSE IF snap.skip_run_len >= 2 THEN "FRAGIL"
    ELSE IF snap.complete_run_len >= 3 THEN "CALIENTE"
    ELSE "NEUTRO"

C4_StateIsFirstMatch ==
    /\ \A i \in 1..Len(transitions) :
          transitions[i].state = StateByPriority(transitions[i])
    /\ returned # None =>
          /\ returned[1].state = StateByPriority(returned[1])
          /\ returned[1].skip_run_len = skip_run_len
          /\ returned[1].complete_run_len = complete_run_len
          /\ returned[1].early_skip_recent = CountTrue(early_skip_recent_window)

C4_CriticoOverFragil ==
    /\ returned # None
    /\ returned[1].skip_run_len \in {2, 3}
    /\ returned[1].early_skip_recent >= 2
    /\ returned[1].state = "CRITICO"
    /\ \E i \in 1..Len(transitions) : transitions[i].state = "CALIENTE"

\* C5: for window size N >= 1, after k events the window holds the early_skip
\* flags of the most recent min(k, N) events in arrival order, never more than
\* N entries, and early_skip_recent is the number of true flags among them.
C5_WindowIsLastN ==
    LET k == Len(events)
        m == IF k < early_skip_window_size THEN k ELSE early_skip_window_size
    IN  /\ Len(early_skip_recent_window) = m
        /\ Len(early_skip_recent_window) <= early_skip_window_size
        /\ \A i \in 1..m :
              early_skip_recent_window[i] = events[k - m + i].early_skip
        /\ returned # None =>
              returned[1].early_skip_recent =
                  Cardinality({i \in (k - m + 1)..k : events[i].early_skip})

C5_WindowRolledOver ==
    /\ early_skip_window_size >= 2
    /\ Len(events) > early_skip_window_size
    /\ events[1].early_skip
    /\ ~early_skip_recent_window[1]
    /\ last_call = "apply"
    /\ returned[1].early_skip_recent = 1

\* C6: in every snapshot the interventions are a function of the state alone:
\* CALIENTE (1.0, no anchor, no reset), NEUTRO (0.8, no anchor, no reset),
\* FRAGIL (0.4, anchor, no reset), CRITICO (0.2, anchor, reset).
InterventionTable(state) ==
    CASE state = "CALIENTE" ->
            [exploration_multiplier |-> 10000, should_inject_anchor |-> FALSE,
             should_suggest_reset |-> FALSE]
      [] state = "NEUTRO" ->
            [exploration_multiplier |-> 8000, should_inject_anchor |-> FALSE,
             should_suggest_reset |-> FALSE]
      [] state = "FRAGIL" ->
            [exploration_multiplier |-> 4000, should_inject_anchor |-> TRUE,
             should_suggest_reset |-> FALSE]
      [] state = "CRITICO" ->
            [exploration_multiplier |-> 2000, should_inject_anchor |-> TRUE,
             should_suggest_reset |-> TRUE]

C6_InterventionsByState ==
    /\ \A i \in 1..Len(transitions) :
          /\ transitions[i].interventions = InterventionTable(transitions[i].state)
          /\ transitions[i].interventions.should_inject_anchor
                <=> transitions[i].state \in {"FRAGIL", "CRITICO"}
          /\ transitions[i].interventions.should_suggest_reset
                <=> transitions[i].state = "CRITICO"
    /\ returned # None =>
          returned[1].interventions = InterventionTable(returned[1].state)

C6_AllStatesSeen ==
    /\ {transitions[i].state : i \in 1..Len(transitions)} = SessionStates
    /\ last_call = "snapshot"

\* C7: snapshot() leaves skip_run_len, complete_run_len and the window as they
\* are; after an apply() or another snapshot() it returns the value that call
\* returned; on a fresh machine it returns NEUTRO with all counters 0.
C7_SnapshotIsPure ==
    [][ last_call' = "snapshot" =>
          /\ skip_run_len' = skip_run_len
          /\ complete_run_len' = complete_run_len
          /\ early_skip_recent_window' = early_skip_recent_window
          /\ last_call # "none" => returned' = returned
          /\ events' = <<>> =>
                /\ returned'[1].state = "NEUTRO"
                /\ returned'[1].skip_run_len = 0
                /\ returned'[1].complete_run_len = 0
                /\ returned'[1].early_skip_recent = 0 ]_vars

C7_SnapshotAfterEarlySkips ==
    /\ last_call = "snapshot"
    /\ Len(events) >= 2
    /\ returned[1] = transitions[Len(transitions)]
    /\ returned[1].early_skip_recent >= 2

\* positions of candidates that hold the first occurrence of their id
FirstOccurrences(cands) ==
    {i \in 1..Len(cands) : \A j \in 1..(i - 1) : cands[j] # cands[i]}

\* out is the list of first occurrences of cands, in input order
IsFirstOccurrenceDedup(out, cands) ==
    LET first == FirstOccurrences(cands)
    IN  /\ Len(out) = Cardinality(first)
        /\ \A i \in first : out[Cardinality({j \in first : j <= i})] = cands[i]

IsAnchorFree(out, from, to, anchor_set) ==
    \A j \in from..to : out[j] \notin anchor_set

\* every window of width consecutive items of out holds an anchor, unless no
\* anchor appears after the window
SpacedBy(out, width, anchor_set) ==
    \A start \in 1..(Len(out) - width + 1) :
        IsAnchorFree(out, start, start + width - 1, anchor_set)
            => IsAnchorFree(out, start + width, Len(out), anchor_set)

\* C8: the output of apply_novelty_budget holds every distinct candidate id
\* exactly once and nothing else; an empty candidate list gives an empty output.
C8_OutputIsPermutationOfDistinctIds ==
    seq_pc = "done" =>
        /\ Range(sequenced[1]) = Range(candidates)
        /\ Len(sequenced[1]) = Cardinality(Range(candidates))
        /\ candidates = <<>> => sequenced[1] = <<>>

C8_ReorderedWithDuplicates ==
    /\ seq_pc = "done"
    /\ Len(candidates) > Cardinality(Range(candidates))
    /\ Len(sequenced[1]) >= 3
    /\ sequenced[1] # unique_candidates

\* C9 (as stated): for every anchor_every_n >= 1 and non-empty anchor set, every
\* window of every_n consecutive output items holds an anchor as long as an
\* anchor still appears later in the output.
C9_SpacedByEveryN ==
    (/\ seq_pc = "done"
     /\ anchors # {}
     /\ budget.anchor_every_n # None
     /\ budget.anchor_every_n[1] >= 1)
        => SpacedBy(sequenced[1], budget.anchor_every_n[1], anchors)

\* C9 (amended): the same with windows of max(2, every_n) items: for
\* every_n >= 2 it is the stated guarantee, for every_n = 1 anchors and
\* non-anchors alternate while an anchor remains.
C9_SpacedByAtLeastTwo ==
    (/\ seq_pc = "done"
     /\ anchors # {}
     /\ budget.anchor_every_n # None
     /\ budget.anchor_every_n[1] >= 1)
        => SpacedBy(sequenced[1], Max(2, budget.anchor_every_n[1]), anchors)

C9_AnchorPulledForSpacing ==
    /\ seq_pc = "done"
    /\ budget.anchor_every_n = Some(3)
    /\ Len(sequenced[1]) = 4
    /\ sequenced[1] # unique_candidates
    /\ sequenced[1][3] \in anchors
    /\ IsAnchorFree(sequenced[1], 1, 2, anchors)

\* C10: with an empty anchor set or anchor_every_n None the output is the
\* first-occurrence deduplication of the candidates in input order, whatever
\* the other budget fields are.
C10_Passthrough ==
    (seq_pc = "done" /\ (anchors = {} \/ budget.anchor_every_n = None))
        => IsFirstOccurrenceDedup(sequenced[1], candidates)

C10_PassthroughWithDuplicates ==
    /\ seq_pc = "done"
    /\ anchors = {}
    /\ budget.anchor_every_n = Some(1)
    /\ Len(candidates) >= 3
    /\ candidates[1] = candidates[3]
    /\ candidates[1] # candidates[2]
    /\ Len(sequenced[1]) = 2

\* x is somewhere before y in out
Before(out, x, y) ==
    \E i, j \in 1..Len(out) : i < j /\ out[i] = x /\ out[j] = y

FirstPosition(cands, x) == Min({i \in 1..Len(cands) : cands[i] = x})

\* C11: in the output non-anchors keep their relative input order and anchors
\* keep theirs; the only change of order between two ids is an anchor that
\* moved ahead of a non-anchor that preceded it in the deduplicated input.
C11_RankOrderWithinClass ==
    seq_pc = "done" =>
        \A x, y \in Range(candidates) :
            (/\ FirstPosition(candidates, x) < FirstPosition(candidates, y)
             /\ Before(sequenced[1], y, x))
                => (y \in anchors /\ x \notin anchors)

C11_TwoAnchorsPulled ==
    /\ seq_pc = "done"
    /\ Len(sequenced[1]) = 4
    /\ unique_candidates[1] \notin anchors
    /\ unique_candidates[2] \notin anchors
    /\ unique_candidates[3] \in anchors
    /\ unique_candidates[4] \in anchors
    /\ sequenced[1] = <<unique_candidates[3], unique_candidates[1],
                        unique_candidates[4], unique_candidates[2]>>

\* C12: compute_novelty_budget gives exploration = clamp(base + adj, 0, 0.8) to
\* 2 decimals with base CALIENTE 0.6, NEUTRO 0.4, FRAGIL 0.2, CRITICO 0.1 and
\* adj +0.05 MORNING/AFTERNOON, -0.05 NIGHT/LATE_NIGHT, 0 otherwise (unknown
\* blocks included); anchor_ratio = 1 - exploration; anchor_every_n 2 for
\* FRAGIL, 1 for CRITICO, None otherwise.  Values below are in hundredths.
ExpectedExplorationHundredths(time_block, state) ==
    LET base == CASE state = "CALIENTE" -> 60
                  [] state = "NEUTRO" -> 40
                  [] state = "FRAGIL" -> 20
                  [] state = "CRITICO" -> 10
        adj == CASE time_block \in {"MORNING", "AFTERNOON"} -> 5
                 [] time_block \in {"NIGHT", "LATE_NIGHT"} -> -5
                 [] OTHER -> 0
        sum == base + adj
    IN  IF sum < 0 THEN 0 ELSE IF sum > 80 THEN 80 ELSE sum

C12_BudgetTable ==
    orchestration # None =>
        LET call == orchestration[1]
            expected == ExpectedExplorationHundredths(call.time_block,
                                                      call.session_state)
        IN  /\ call.result.budget.exploration * 100 = expected * Scale
            /\ call.result.budget.anchor_ratio * 100 = (100 - expected) * Scale
            /\ call.result.budget.anchor_every_n =
                  (IF call.session_state = "FRAGIL" THEN <<2>>
                   ELSE IF call.session_state = "CRITICO" THEN <<1>>
                   ELSE <<>>)

C12_AllRowsOfTheTable ==
    /\ orchestration # None
    /\ orchestration[1].time_block = "LATE_NIGHT"
    /\ orchestration[1].session_state = "CALIENTE"
    /\ orchestration[1].result.budget.exploration = 5500
    /\ orchestration[1].result.budget.anchor_every_n = None

\* C13 (as stated): whenever anchor_track_ids is non-empty, every anchor id
\* present in base_scores scores base * multiplier + 1.0 (once), every other id
\* base * multiplier, and the result has exactly the keys of base_scores.
HookScoresAre(boosted) ==
    /\ DOMAIN hook_call.result.scores = DOMAIN hook_call.base_scores
    /\ \A track_id \in DOMAIN hook_call.base_scores :
          hook_call.result.scores[track_id] * Scale =
              hook_call.base_scores[track_id]
                  * hook_call.interventions.exploration_multiplier
              + (IF boosted /\ track_id \in Range(hook_call.anchor_track_ids[1])
                 THEN Scale * Scale ELSE 0)

C13_BoostWheneverAnchorsSupplied ==
    (hook_call.pc = "done" /\ ~NoAnchorIds(hook_call.anchor_track_ids))
        => HookScoresAre(TRUE)

\* C13 (amended): the boost is added only when should_inject_anchor is true and
\* anchor_track_ids is non-empty; with should_inject_anchor false (or no anchor
\* ids) every id scores base * multiplier.  The key set is that of base_scores
\* in every case.
C13_BoostWhenInjectingAndAnchorsSupplied ==
    hook_call.pc = "done" =>
        HookScoresAre(hook_call.interventions.should_inject_anchor
                        /\ ~NoAnchorIds(hook_call.anchor_track_ids))

C13_AnchorListedTwiceBoostedOnce ==
    /\ hook_call.pc = "done"
    /\ hook_call.interventions.should_inject_anchor
    /\ hook_call.interventions.exploration_multiplier = 4000
    /\ hook_call.anchor_track_ids = Some(<<"a", "missing", "a">>)
    /\ DOMAIN hook_call.base_scores = {"a", "b"}
    /\ hook_call.base_scores["a"] = 5000
    /\ hook_call.result.scores["a"] = 12000

\* C14: for every context that passes validation the target tempo range
\* (low, high) satisfies 40 <= low <= high <= 220.
C14_TempoRangeWithinLimits ==
    plan_call.pc = "done" =>
        /\ TempoFloor <= plan_call.plan.target_tempo_range[1]
        /\ plan_call.plan.target_tempo_range[1] <= plan_call.plan.target_tempo_range[2]
        /\ plan_call.plan.target_tempo_range[2] <= TempoCeiling

\* validity of a context as the claim lists it
IsValidContext(context) ==
    /\ context.time_block \in
          {"MORNING", "AFTERNOON", "EVENING", "NIGHT", "LATE_NIGHT"}
    /\ context.session_state \in {"CALIENTE", "NEUTRO", "FRAGIL", "CRITICO"}
    /\ 0 <= context.fatigue_score /\ context.fatigue_score <= Scale
    /\ \/ context.energy_override = None
       \/ (0 <= context.energy_override[1] /\ context.energy_override[1] <= Scale)

\* C15: the call raises ValueError exactly for an unknown time_block, an unknown
\* session_state, a fatigue_score outside [0,1] or a given energy_override
\* outside [0,1]; every other context gets a plan.
C15_RaisesExactlyOnInvalidContext ==
    plan_call.pc # "call" =>
        IF IsValidContext(plan_call.context)
        THEN plan_call.pc = "done"
        ELSE plan_call.pc = "raised" /\ plan_call.error = "ValueError"

C15_OverrideAboveOneRaised ==
    /\ plan_call.pc = "raised"
    /\ plan_call.context.time_block \in TimeBlocks
    /\ plan_call.context.session_state \in SessionStates
    /\ plan_call.context.fatigue_score = Scale
    /\ plan_call.context.energy_override = Some(10500)

\* C16: with energy_override given, target_energy_range is the override plus and
\* minus the state's energy width (clamped to [0,1]) whatever the DNA energy
\* mean, time block and fatigue are: every valid context sharing override and
\* state gets the same range, and energy_source is "override".
C16_OverrideAloneDecidesEnergyRange ==
    (plan_call.pc = "done" /\ plan_call.context.energy_override # None) =>
        /\ plan_call.plan.explanation.energy_source = "override"
        /\ \A energy \in DnaEnergyChoices, block \in TimeBlocks,
              fatigue \in {f \in FatigueChoices : 0 <= f /\ f <= Scale} :
              LET other == [plan_call.context EXCEPT !.dna_energy = energy,
                                                     !.time_block = block,
                                                     !.fatigue_score = fatigue]
              IN  compute_recommendation_plan(other).plan.target_energy_range
                      = plan_call.plan.target_energy_range

C16_OverrideWithFatigue ==
    /\ plan_call.pc = "done"
    /\ plan_call.context.energy_override = Some(4000)
    /\ plan_call.context.fatigue_score = Scale
    /\ plan_call.context.session_state = "NEUTRO"
    /\ plan_call.plan.target_energy_range = <<2600, 5400>>

\* number of positions of a sequence that hold x
Occurrences(seq, x) == Cardinality({i \in 1..Len(seq) : seq[i] = x})

\* C17: every output track has energy and tempo within the plan's ranges; no
\* output track occurs more often than in the input; and the bounds are
\* inclusive: when the plan keeps the whole exploration pool (multiplier 1.0),
\* every non-anchor candidate within the closed ranges is in the output as often
\* as in the input.
C17_OutputWithinInclusiveRanges ==
    build_call.pc = "done" =>
        /\ \A i \in 1..Len(build_call.result) :
              LET track == build_call.result[i]
              IN  /\ build_call.plan.target_energy_range[1] <= Energy(track)
                  /\ Energy(track) <= build_call.plan.target_energy_range[2]
                  /\ build_call.plan.target_tempo_range[1] <= Tempo(track)
                  /\ Tempo(track) <= build_call.plan.target_tempo_range[2]
                  /\ Occurrences(build_call.result, track)
                        <= Occurrences(build_call.candidates, track)
        /\ build_call.plan.exploration_multiplier = Scale =>
              \A track \in Range(build_call.candidates) :
                  (/\ ~IsAnchor(track)
                   /\ build_call.plan.target_energy_range[1] <= Energy(track)
                   /\ Energy(track) <= build_call.plan.target_energy_range[2]
                   /\ build_call.plan.target_tempo_range[1] <= Tempo(track)
                   /\ Tempo(track) <= build_call.plan.target_tempo_range[2])
                      => Occurrences(build_call.result, track)
                            = Occurrences(build_call.candidates, track)

C17_BoundaryTracksKept ==
    /\ build_call.pc = "done"
    /\ build_call.plan.sequencing_strategy = "balanced"
    /\ build_call.plan.anchor_every_n = None
    /\ Len(build_call.candidates) = 3
    /\ build_call.candidates[1].id = "low"
    /\ build_call.candidates[2].id = "out_energy"
    /\ build_call.candidates[3].id = "high"
    /\ Len(build_call.result) = 2
    /\ build_call.result[1].id = "low"
    /\ build_call.result[2].id = "high"

\* C18: for the minute of day of every moment, exactly one interval of the
\* weekday schedule and exactly one interval of the weekend schedule contains
\* it, and get_time_block returns a block (it never raises RuntimeError).
C18_ExactlyOneIntervalPerMinute ==
    clock.pc # "idle" =>
        LET minute_of_day == clock.hour * 60 + clock.minute
        IN  /\ Cardinality(Containing(WEEKDAY_SCHEDULE, minute_of_day)) = 1
            /\ Cardinality(Containing(WEEKEND_SCHEDULE, minute_of_day)) = 1
            /\ clock.pc # "raised"
            /\ clock.pc = "done" => clock.block \in TimeBlocks

C18_LastMinuteOfSunday ==
    /\ clock.pc = "done"
    /\ clock.weekday = 6
    /\ clock.hour * 60 + clock.minute = 1439
    /\ clock.block = "NIGHT"

\* C19: on a weekend day the block of minute m is the weekday block of
\* (m - 60) mod 1440; weekday 05:59 is LATE_NIGHT and 06:00 MORNING, weekend
\* 06:30 is LATE_NIGHT and 07:00 MORNING.
C19_WeekendIsWeekdayShiftedByAnHour ==
    clock.pc = "done" =>
        LET m == clock.hour * 60 + clock.minute
            shifted == (m - 60) % 1440
        IN  /\ clock.weekday \in {5, 6} =>
                  \A day \in 0..4 :
                      clock.block
                        = get_time_block(day, shifted \div 60, shifted % 60).block
            /\ (clock.weekday \in 0..4 /\ m = 5 * 60 + 59) => clock.block = "LATE_NIGHT"
            /\ (clock.weekday \in 0..4 /\ m = 6 * 60) => clock.block = "MORNING"
            /\ (clock.weekday \in {5, 6} /\ m = 6 * 60 + 30) => clock.block = "LATE_NIGHT"
            /\ (clock.weekday \in {5, 6} /\ m = 7 * 60) => clock.block = "MORNING"

C19_SaturdayHalfPastSix ==
    /\ clock.pc = "done"
    /\ clock.weekday = 5
    /\ clock.hour = 6
    /\ clock.minute = 30
    /\ clock.block = "LATE_NIGHT"

\* the playlists of the API answer that have an id and an owner id
StorablePlaylists ==
    {sync.api.playlists[i] : i \in
        {j \in 1..Len(sync.api.playlists) :
            /\ sync.api.playlists[j].id # None
            /\ sync.api.playlists[j].owner_id # None}}

\* C20: when the tracks request of a playlist fails with HTTP 403 (and nothing
\* else fails), the run returns without an exception, its ingest_runs row says
\* SUCCESS, the row of every playlist is stored, and so are the tracks of every
\* playlist whose tracks request succeeded.
C20_ForbiddenPlaylistSkipped ==
    (/\ sync.pc \in {"returned", "raised"}
     /\ sync.api.failing = "none"
     /\ \E playlist \in StorablePlaylists :
            TracksStatus(sync.api, playlist.id[1]) = 403
     /\ \A playlist \in StorablePlaylists :
            TracksStatus(sync.api, playlist.id[1]) \in {200, 403})
        => /\ sync.pc = "returned"
           /\ sync.ingest_runs[Len(sync.ingest_runs)].status = "SUCCESS"
           /\ \A playlist \in StorablePlaylists :
                 /\ \E row \in sync.playlists : row.id = playlist.id[1]
                 /\ TracksStatus(sync.api, playlist.id[1]) = 200 =>
                       \A i \in 1..Len(PlaylistItems(playlist.id[1])) :
                           LET item == PlaylistItems(playlist.id[1])[i]
                           IN  (item.track.id # None /\ item.track.name # None) =>
                                   \E row \in sync.playlist_tracks :
                                       /\ row.playlist_id = playlist.id[1]
                                       /\ row.track_id = item.track.id[1]
                                       /\ row.position = i - 1

\* what a run from the second one on may do to the database in one step
SecondRunStep ==
    Len(sync'.ingest_runs) >= 2 =>
        /\ sync'.saved_tracks = sync.saved_tracks
        /\ sync'.playlist_tracks = sync.playlist_tracks
        /\ sync'.recently_played = sync.recently_played
        /\ sync.top_items \subseteq sync'.top_items
        /\ \A row \in sync'.top_items \ sync.top_items :
              row.run_id = Len(sync'.ingest_runs)

\* one more ingest_runs row when a run starts, none in any other step
OneRowPerRun ==
    Len(sync'.ingest_runs) =
        Len(sync.ingest_runs) + (IF sync'.pc = "ingest_saved_tracks" THEN 1 ELSE 0)

\* what is true of the database and of a returned summary at any time
SyncStored ==
    /\ sync.api.since # None =>
          /\ \A row \in sync.saved_tracks : row.added_at >= sync.api.since[1]
          /\ \A row \in sync.recently_played : row.played_at >= sync.api.since[1]
    /\ (sync.pc = "returned" /\ Len(sync.ingest_runs) >= 2) =>
          /\ sync.summary[1].saved_tracks = 0
          /\ sync.summary[1].playlist_tracks = 0
          /\ sync.summary[1].recent_tracks = 0
          /\ sync.summary[1].top_items > 0
          /\ sync.summary[1].run_id = Len(sync.ingest_runs)

LaterAnchors(idx) ==
    {j \in (idx + 1)..Len(unique_candidates) :
        unique_candidates[j] \in anchors /\ unique_candidates[j] \notin loop.emitted}

PullForwardStep ==
    (/\ seq_pc = "loop"
     /\ index <= Len(unique_candidates)
     /\ unique_candidates[index] \notin loop.emitted
     /\ unique_candidates[index] \notin anchors
     /\ loop.since_last_anchor >= anchor_every_n - 1)
        => IF LaterAnchors(index) # {}
           THEN \E j \in LaterAnchors(index) :
                   /\ \A k \in LaterAnchors(index) : j <= k
                   /\ loop'.output = loop.output
                                       \o <<unique_candidates[j], unique_candidates[index]>>
                   /\ loop'.since_last_anchor = 1
           ELSE /\ loop'.output = Append(loop.output, unique_candidates[index])
                /\ loop'.since_last_anchor = loop.since_last_anchor + 1

\* C22: when a non-anchor is about to be emitted with since_last_anchor >=
\* every_n - 1, the earliest not-yet-emitted anchor behind it (if there is one)
\* is emitted right before it and the counter restarts; without such an anchor
\* the non-anchor is emitted alone.  With every_n = 2, candidates
\* [n1,n2,a1,n3,a2] and anchors {a1,a2} the result is [n1,a1,n2,a2,n3].
C22_NearestAnchorPulledForward ==
    /\ [][PullForwardStep]_vars
    /\ []((/\ seq_pc = "done"
           /\ candidates = <<"n1", "n2", "a1", "n3", "a2">>
           /\ anchors = {"a1", "a2"}
           /\ budget.anchor_every_n = Some(2))
              => sequenced = Some(<<"n1", "a1", "n2", "a2", "n3">>))

C22_ExampleSequenced ==
    /\ seq_pc = "done"
    /\ candidates = <<"n1", "n2", "a1", "n3", "a2">>
    /\ anchors = {"a1", "a2"}
    /\ budget.anchor_every_n = Some(2)
    /\ Len(sequenced[1]) = 5

\* the unflagged candidates within the plan's ranges, in input order
UnflaggedSurvivors ==
    SelectSeq(build_call.candidates,
              LAMBDA track : /\ ~IsAnchor(track)
                             /\ build_call.plan.target_energy_range[1] <= Energy(track)
                             /\ Energy(track) <= build_call.plan.target_energy_range[2]
                             /\ build_call.plan.target_tempo_range[1] <= Tempo(track)
                             /\ Tempo(track) <= build_call.plan.target_tempo_range[2])

\* round(len * exploration_multiplier) clamped to [0, len]
KeptCount ==
    Clamp(RoundInt(Len(UnflaggedSurvivors) * build_call.plan.exploration_multiplier),
          0, Len(UnflaggedSurvivors))

\* the exploration tracks of the output, in output order
OutputExploration == SelectSeq(build_call.result, LAMBDA track : ~IsAnchor(track))

\* a list is in the order the plan's strategy asks for
InStrategyOrder(tracks) ==
    \A i, j \in 1..Len(tracks) :
        i < j => ~KeyLess(SortKey(tracks[j], build_call.plan),
                          SortKey(tracks[i], build_call.plan))

\* C23 (as stated): the unflagged survivors are ordered per strategy first and
\* then cut, so the exploration tracks of the output are the first KeptCount
\* survivors in strategy order.
C23_OrderedThenTruncated ==
    build_call.pc = "done" =>
        OutputExploration =
            SubSeq(order_tracks(UnflaggedSurvivors, build_call.plan), 1, KeptCount)

\* C23 (amended): the unflagged survivors are cut first, in input order, and
\* the remaining ones are then ordered: the exploration tracks of the output
\* are exactly the first KeptCount survivors of the input, arranged in strategy
\* order (for "balanced", left in input order).
C23_TruncatedThenOrdered ==
    build_call.pc = "done" =>
        LET kept == SubSeq(UnflaggedSurvivors, 1, KeptCount)
        IN  /\ Len(OutputExploration) = KeptCount
            /\ \A track \in Range(kept) \cup Range(OutputExploration) :
                  Occurrences(OutputExploration, track) = Occurrences(kept, track)
            /\ IF build_call.plan.sequencing_strategy = "balanced"
               THEN OutputExploration = kept
               ELSE InStrategyOrder(OutputExploration)

C23_FirstInInputOrderKept ==
    /\ build_call.pc = "done"
    /\ build_call.plan.sequencing_strategy = "flow_explore"
    /\ build_call.plan.exploration_multiplier = 5000
    /\ Len(build_call.candidates) = 3
    /\ build_call.candidates[1].id = "low"
    /\ build_call.candidates[2].id = "mid"
    /\ build_call.candidates[3].id = "high"
    /\ Len(build_call.result) = 2
    /\ build_call.result[1].id = "mid"
    /\ build_call.result[2].id = "low"

\* the flagged candidates within the plan's ranges, in the strategy's order
OrderedAnchors ==
    order_tracks(
        SelectSeq(build_call.candidates,
                  LAMBDA track : /\ IsAnchor(track)
                                 /\ build_call.plan.target_energy_range[1] <= Energy(track)
                                 /\ Energy(track) <= build_call.plan.target_energy_range[2]
                                 /\ build_call.plan.target_tempo_range[1] <= Tempo(track)
                                 /\ Tempo(track) <= build_call.plan.target_tempo_range[2]),
        build_call.plan)

\* the selected exploration tracks, in the order they are handed to injection
SelectedExploration ==
    order_tracks(SubSeq(UnflaggedSurvivors, 1, KeptCount), build_call.plan)

TokenCalled == token_call.pc \in {"returned", "raised", "refreshing"}

\* the step that starts a call does what the stored token and the clock demand
TokenCallStep ==
    (token_call.pc = "ready" /\ TokenCalled')
        => /\ token_call'.file = token_call.file
           /\ token_call'.writes = 0
           /\ IF token_call.file = None
              THEN /\ token_call'.pc = "raised"
                   /\ token_call'.error = "RuntimeError"
                   /\ token_call'.refresh_calls = <<>>
              ELSE IF token_call.now
                         < token_call.file[1].expires_at - token_call'.margin
              THEN /\ token_call'.pc = "returned"
                   /\ token_call'.value = token_call.file[1].access_token
                   /\ token_call'.refresh_calls = <<>>
              ELSE /\ token_call'.pc = "refreshing"
                   /\ token_call'.refresh_calls
                         = <<token_call.file[1].refresh_token>>

\* the step in which the refresh answers stores and returns the answer
TokenRefreshStep ==
    (token_call.pc = "refreshing" /\ token_call'.pc = "returned")
        => /\ token_call'.refresh_calls = token_call.refresh_calls
           /\ token_call'.writes = 1
           /\ token_call'.file # None
           /\ token_call'.file[1].access_token = token_call'.refreshed.access_token
           /\ token_call'.value = token_call'.refreshed.access_token
           /\ token_call'.refreshed.refresh_token = None
                 => token_call'.file[1].refresh_token
                       = token_call.file[1].refresh_token

\* C26: get_access_token returns the stored access token without a refresh
\* exactly when now < expires_at - refresh_margin_seconds; otherwise it calls
\* refresh once with the stored refresh token, stores the answer and returns
\* its access token, keeping the stored refresh token when the answer has
\* none; without a stored token it raises RuntimeError and writes nothing.
C26_ValidReturnedElseRefreshedOnce ==
    /\ [][TokenCallStep /\ TokenRefreshStep]_vars
    /\ []((token_call.pc = "raised" /\ token_call.error = "RuntimeError")
            => (token_call.file = None /\ token_call.writes = 0))
    /\ [](token_call.pc = "returned"
            => \/ /\ token_call.refresh_calls = <<>>
                  /\ token_call.writes = 0
                  /\ token_call.checked_at
                        < token_call.loaded.expires_at - token_call.margin
                  /\ token_call.value = token_call.loaded.access_token
               \/ /\ token_call.refresh_calls = <<token_call.loaded.refresh_token>>
                  /\ token_call.writes = 1
                  /\ token_call.checked_at
                        >= token_call.loaded.expires_at - token_call.margin
                  /\ token_call.file = Some([access_token |-> token_call.value,
                                             refresh_token |-> token_call.file[1].refresh_token,
                                             token_type |-> token_call.refreshed.token_type,
                                             scope |-> token_call.refreshed.scope,
                                             expires_at |-> token_call.file[1].expires_at]))

C26_RefreshedKeepingRefreshToken ==
    /\ token_call.pc = "returned"
    /\ token_call.refresh_calls = <<"refresh-1">>
    /\ token_call.loaded.access_token = "access-1"
    /\ token_call.refreshed.refresh_token = None
    /\ token_call.value = "fresh-token"
    /\ token_call.file[1].refresh_token = "refresh-1"
    /\ token_call.file[1].access_token = "fresh-token"

\* the machine's fields after n more completion events
RECURSIVE AfterCompletions(_, _)
AfterCompletions(machine, n) ==
    IF n = 0 THEN machine
    ELSE LET run == RunLengths(machine.skip_run_len, machine.complete_run_len,
                               complete)
         IN  AfterCompletions(
                 [skip_run_len |-> run.skip_run_len,
                  complete_run_len |-> run.complete_run_len,
                  window |-> PushWindow(machine.window, FALSE,
                                        early_skip_window_size)],
                 n - 1)

\* max(3, N - 1) for the machine's window size N
RecoveryRun == Max(3, early_skip_window_size - 1)

\* the last n events applied are all completions
EndsWithCompletions(n) ==
    /\ Len(events) >= n
    /\ \A i \in (Len(events) - n + 1)..Len(events) : events[i] = complete

\* C27: from every reachable state of a machine with window size N, max(3, N - 1)
\* completion events in a row lead to a snapshot in state CALIENTE, both for
\* the events a run has applied and for the ones that could follow.
C27_RecoversAfterCompletions ==
    /\ LET recovered == AfterCompletions(
                            [skip_run_len |-> skip_run_len,
                             complete_run_len |-> complete_run_len,
                             window |-> early_skip_recent_window],
                            RecoveryRun)
       IN  snapshot(recovered.skip_run_len, recovered.complete_run_len,
                    recovered.window).state = "CALIENTE"
    /\ EndsWithCompletions(RecoveryRun)
          => /\ transitions[Len(transitions)].state = "CALIENTE"
             /\ snapshot(skip_run_len, complete_run_len,
                         early_skip_recent_window).state = "CALIENTE"

\* window 5: two early skips, then three completions leave the machine in
\* CRITICO and the fourth brings CALIENTE
C27_CriticoUntilFourthCompletion ==
    /\ early_skip_window_size = 5
    /\ events = <<early_skip_event, early_skip_event,
                  complete, complete, complete, complete>>
    /\ transitions[5].state = "CRITICO"
    /\ transitions[5].complete_run_len = 3
    /\ transitions[6].state = "CALIENTE"

\* no id occurs twice
Deduplicated(ids) == \A i, j \in 1..Len(ids) : ids[i] = ids[j] => i = j

\* every run of n consecutive items holds an anchor
AnchorInEveryWindow(ids, anchor_set, n) ==
    \A start \in 1..(Len(ids) - n + 1) :
        \E i \in start..(start + n - 1) : ids[i] \in anchor_set

\* C28: with anchor_every_n >= 2, apply_novelty_budget returns its own output
\* unchanged when applied to it with the same anchors and budget, and returns
\* unchanged a deduplicated input that has an anchor in every window of
\* anchor_every_n consecutive items.
C28_Idempotent ==
    (/\ seq_pc = "done"
     /\ budget.anchor_every_n # None
     /\ budget.anchor_every_n[1] >= 2)
        => /\ apply_novelty_budget(sequenced[1], anchors, budget) = sequenced[1]
           /\ (/\ Deduplicated(candidates)
               /\ AnchorInEveryWindow(candidates, anchors, budget.anchor_every_n[1]))
                 => sequenced[1] = candidates

\* an anchor was pulled forward, and a second application moves nothing
C28_PulledOnceThenStable ==
    /\ seq_pc = "done"
    /\ budget.anchor_every_n = Some(2)
    /\ Len(candidates) = 4
    /\ Deduplicated(candidates)
    /\ Cardinality(anchors \cap Range(candidates)) = 2
    /\ ~AnchorInEveryWindow(candidates, anchors, 2)
    /\ sequenced[1] # candidates
    /\ AnchorInEveryWindow(sequenced[1], anchors, 2)
    /\ apply_novelty_budget(sequenced[1], anchors, budget) = sequenced[1]

\* C29: a run with a non-batch provider counts every scanned candidate as
\* exactly one cache hit or one API call, whatever audio_feature_cache holds:
\* scanned = cache_hits + api_calls, no candidate with a cache row reaches the
\* provider, and inserted <= scanned.
C29_EveryCandidateCountedOnce ==
    backfill.pc = "done"
        => /\ backfill.result.scanned
                 = backfill.result.cache_hits + backfill.result.api_calls
           /\ \A i \in 1..Len(backfill.provider_calls) :
                 backfill.cache_at_start[backfill.provider_calls[i]] = "absent"
           /\ backfill.result.inserted <= backfill.result.scanned

\* a handled request on the redirect path with a wrong state or without a code
BadRequestHandled ==
    \E i \in 1..Len(callback.handled) :
        \/ callback.handled[i].state # ExpectedState
        \/ callback.handled[i].code = ""

\* the call has ended, with a value or an exception
CallbackEnded == callback.pc \in {"returned", "raised"}

\* the waiter's reading of the result and of the Event decides the outcome
WaiterStep ==
    /\ (callback.pc = "waiting" /\ callback'.pc # "waiting")
          => IF callback.signal THEN callback'.pc = "check_error"
             ELSE callback'.pending = Some([kind |-> "TimeoutError"])
    /\ (callback.pc = "check_error" /\ callback'.pc # "check_error")
          => IF BadRequestHandled
             THEN /\ callback'.pending # None
                  /\ callback'.pending[1].kind = "RuntimeError"
             ELSE callback'.pc = "read_code"
    /\ callback.pending # None => callback'.pending = callback.pending
    /\ (callback.outcome = None /\ callback'.outcome # None /\ callback.uri_ok)
          => callback'.outcome = callback.pending

\* C30: under every interleaving of the server thread's requests with the
\* waiter, a returned code came in a request on the redirect path with the
\* expected state; a bad request handled before the waiter looks at the result
\* makes it raise RuntimeError, a wait that ends with the Event unset raises
\* TimeoutError, and the server is stopped whenever the call has ended.
C30_CodeOnlyFromExpectedState ==
    /\ [][WaiterStep]_vars
    /\ [](callback.pc = "returned"
            => /\ callback.outcome[1].kind = "returned"
               /\ \E i \in 1..Len(callback.requests) :
                     /\ callback.requests[i].path = RedirectPath
                     /\ callback.requests[i].state = ExpectedState
                     /\ callback.requests[i].code = callback.outcome[1].code
                     /\ callback.requests[i].code # "")
    /\ [](callback.pc = "raised"
            => callback.outcome[1].kind
                  \in {"RuntimeError", "TimeoutError", "ValueError"})
    /\ []((CallbackEnded /\ callback.uri_ok)
            => (callback.server = "closed" /\ callback.handler = "idle"))
    /\ []((CallbackEnded /\ ~callback.uri_ok) => callback.server = "none")

\* a valid request signalled, a forged one was handled before the waiter
\* looked, and the call raised RuntimeError with the server closed
C30_ForgedRequestBeatsCode ==
    /\ callback.pc = "raised"
    /\ callback.outcome = Some([kind |-> "RuntimeError",
                                message |-> "Invalid OAuth state"])
    /\ Len(callback.handled) = 2
    /\ callback.handled[1].state = ExpectedState
    /\ callback.handled[1].code = "code-1"
    /\ callback.handled[2].state = "forged"
    /\ callback.result.code = Some("code-1")
    /\ callback.server = "closed"

====
